---- MODULE Spec2Model ----
(***************************************************************************)
(* NextGenCRM prospect pipeline: the outreach sequence state machine of    *)
(* Prospect (models.py), the lead generation orchestrator                  *)
(* (lead_generation_service.py) and the deduplication engine               *)
(* (deduplication_service.py).                                             *)
(*                                                                         *)
(* Three specifications share the module, each over its own variables:     *)
(*   SpecProspect  - one persisted prospect under the sequence handlers    *)
(*   SpecCampaign  - one run of validate_campaign_config and               *)
(*                   generate_prospects_campaign                           *)
(*   SpecDedup     - deduplicate_prospect_list on a bounded input list     *)
(***************************************************************************)
EXTENDS Integers, Sequences, FiniteSets, TLC

VARIABLES
    \* ---- Prospect row (models.py Prospect) ----
    status,               \* Prospect.status
    sequence_position,    \* Prospect.sequence_position
    next_followup_date,   \* Prospect.next_followup_date: <<>> is None, <<t>> a date
    response_received,    \* Prospect.response_received
    response_date,        \* Prospect.response_date: <<>> is None
    converted_to_lead,    \* Prospect.converted_to_lead
    now,                  \* timezone.now(), in days
    lastOp,               \* history: the handler that ran last
    advanceCalls,         \* history: number of advance_sequence calls so far
    \* ---- deduplicate_prospect_list (deduplication_service.py) ----
    dd_prospects,         \* the argument: a list of prospect dicts
    dd_result,            \* the returned dict; <<>> before the call
    \* ---- validate_campaign_config (lead_generation_service.py) ----
    v_config,             \* the config dict passed in
    v_result,             \* the returned dict; <<>> before the call
    \* ---- one campaign request (views.py, lead_generation_service.py) ----
    c_pc,                 \* position of the request in the handler
    c_config,             \* request.data / campaign_config
    c_max_results,        \* max_results of generate_prospects_campaign
    c_discovery,          \* how search_businesses ended
    c_businesses,         \* businesses: the listings discovery returned
    c_processed,          \* processed_count
    c_prospects,          \* prospects: the qualified drafts collected so far
    c_checks,             \* history: the store checks made and their outcome
    c_calls,              \* history: the external adapters called so far
    c_errors,             \* the place_id of each listing whose turn logged an error
    c_result,             \* what the caller gets back; <<>> while running
    \* ---- enrich_existing_prospect, bulk_enrich_prospects ----
    en_prospect,          \* prospect_data of enrich_existing_prospect
    en_world,             \* what the adapters answer for that prospect
    en_enriched,          \* the returned dict; <<>> before the call
    b_prospects,          \* prospects of bulk_enrich_prospects
    b_worlds,             \* what the adapters answer for each of them
    b_max_concurrent,     \* max_concurrent
    b_i,                  \* i of the batch loop
    b_enriched,           \* enriched_prospects
    b_result,             \* the returned list; <<>> before the return
    \* ---- maps_service.search_businesses and its cache ----
    m_world,              \* what the settings and the provider hold: api_key, geocodes, places
    m_cache,              \* the cache entry of the search key, None when there is none
    m_max_results,        \* max_results of the last call
    m_returned,           \* what the last call returned, None before the first call
    m_searches,           \* calls so far
    \* ---- czech_registry.validate_ico ----
    vi_ico,               \* ico of validate_ico, a string as the sequence of its characters
    vi_result,            \* <<the returned bool>>, None before the call
    \* ---- Prospect.enrich_from_ico ----
    p_row,                \* the Prospect row: ico, name, address, registry fields, ico_enriched, ico_enriched_at
    p_ares,               \* what fetch_company_data got from the registry in the last call
    p_returned,           \* <<the returned bool>> of the last call, None before it
    p_calls,              \* calls of enrich_from_ico so far
    \* ---- deduplication_service.check_for_duplicates ----
    ck_new,               \* new_prospect
    ck_existing,          \* existing_prospects, what _get_existing_prospects returns
    ck_oracle,            \* what the duplicate oracle does when asked
    ck_result,            \* the returned verdict, None before the call
    \* ---- ProspectViewSet.advance_sequence, concurrent requests ----
    r_row,                \* the Prospect row in the database: sequence_position, status, next_followup_date
    r_mem,                \* per request, the instance get_object loaded, None outside a request
    r_now,                \* timezone.now()
    r_started,            \* requests started so far
    r_writes,             \* UPDATE statements issued so far
    \* ---- WebScrapingService._fetch_page ----
    f_world,              \* what each attempt meets: html, non_html, request_exception, other_exception
    f_attempt,            \* attempts made so far
    f_result              \* <<what the call returned or raised>>, None while it runs

seqVars == <<status, sequence_position, next_followup_date, response_received,
             response_date, converted_to_lead, now, lastOp, advanceCalls>>

dedupVars == <<dd_prospects, dd_result>>

validateVars == <<v_config, v_result>>

campVars == <<c_pc, c_config, c_max_results, c_discovery, c_businesses,
              c_processed, c_prospects, c_checks, c_calls, c_errors,
              c_result>>

enrichVars == <<en_prospect, en_world, en_enriched, b_prospects, b_worlds,
                b_max_concurrent, b_i, b_enriched, b_result>>

mapsVars == <<m_world, m_cache, m_max_results, m_returned, m_searches>>

icoVars == <<vi_ico, vi_result>>

registryVars == <<p_row, p_ares, p_returned, p_calls>>

checkVars == <<ck_new, ck_existing, ck_oracle, ck_result>>

raceVars == <<r_row, r_mem, r_now, r_started, r_writes>>

fetchVars == <<f_world, f_attempt, f_result>>

vars == <<seqVars, dedupVars, validateVars, campVars, enrichVars, mapsVars, icoVars, registryVars, checkVars, raceVars, fetchVars>>

(***************************************************************************)
(* Bounds                                                                  *)
(***************************************************************************)
MaxClock == 5
MaxCalls == 5
MaxList == 3
MaxListings == 2
MaxBulk == 3
MaxPlaces == 4
MaxAsk == 4
MaxSearches == 3
PageSize == 2
MaxIcoShort == 2
MaxEnrichCalls == 2
MaxBinade == 12
MaxExisting == 2
NumRequests == 2
MaxRequests == 5

(***************************************************************************)
(* Prospect: outreach sequence                                             *)
(***************************************************************************)
None == <<>>

FollowupDelayDays == 3

FinalPosition == 4

STATUS_CHOICES ==
    {"new", "validated", "email_generated", "sent", "follow_up_1",
     "follow_up_2", "follow_up_3", "responded", "converted", "dead",
     "disqualified"}

SEQUENCE_POSITION_CHOICES == 0..4

\* status_map of advance_sequence, shifted so that position k is labelled
\* follow_up_k (the labels of SEQUENCE_POSITION_CHOICES)
StatusMapByLabel(pos) ==
    CASE pos = 0 -> "new"
      [] pos = 1 -> "follow_up_1"
      [] pos = 2 -> "follow_up_2"
      [] pos = 3 -> "follow_up_3"
      [] pos = 4 -> "dead"

\* status_map of advance_sequence
StatusMap(pos) ==
    CASE pos = 0 -> "new"
      [] pos = 1 -> "sent"
      [] pos = 2 -> "follow_up_1"
      [] pos = 3 -> "follow_up_2"
      [] pos = 4 -> "follow_up_3"

\* Prospect.should_send_followup
ShouldSendFollowup ==
    /\ next_followup_date # None
    /\ next_followup_date[1] <= now
    /\ sequence_position < FinalPosition
    /\ status \notin {"responded", "converted", "dead", "disqualified"}

\* advance_sequence without the guard on the position
AdvanceResultUnguarded(pos, st, nfd, t) ==
    LET p1 == pos + 1
        s1 == IF p1 \in 0..4 THEN StatusMap(p1) ELSE st
    IN  IF p1 < FinalPosition
        THEN <<p1, s1, <<t + FollowupDelayDays>> >>
        ELSE <<p1, "dead", None>>

\* advance_sequence without the status of the end of the sequence
AdvanceResultWithoutDead(pos, st, nfd, t) ==
    IF pos < FinalPosition
    THEN LET p1 == pos + 1
             s1 == IF p1 \in 0..4 THEN StatusMap(p1) ELSE st
         IN  IF p1 < FinalPosition
             THEN <<p1, s1, <<t + FollowupDelayDays>> >>
             ELSE <<p1, s1, None>>
    ELSE <<pos, st, nfd>>

\* The fields advance_sequence leaves on the instance, from position pos
\* and status st at time t: <<position, status, next_followup_date>>
AdvanceResult(pos, st, nfd, t) ==
    IF pos < FinalPosition
    THEN LET p1 == pos + 1
             s1 == IF p1 \in 0..4 THEN StatusMap(p1) ELSE st
         IN  IF p1 < FinalPosition
             THEN <<p1, s1, <<t + FollowupDelayDays>> >>
             ELSE <<p1, "dead", None>>
    ELSE <<pos, st, nfd>>

\* ProspectViewSet.advance_sequence -> Prospect.advance_sequence
AdvanceSequence ==
    /\ advanceCalls < MaxCalls
    /\ LET r == AdvanceResult(sequence_position, status, next_followup_date, now)
       IN  /\ sequence_position' = r[1]
           /\ status' = r[2]
           /\ next_followup_date' = r[3]
    /\ advanceCalls' = advanceCalls + 1
    /\ lastOp' = "advance_sequence"
    /\ UNCHANGED <<response_received, response_date, converted_to_lead, now>>
    /\ UNCHANGED <<dedupVars, validateVars, campVars, enrichVars, mapsVars, icoVars, registryVars, checkVars, raceVars, fetchVars>>

\* ProspectViewSet.mark_responded -> Prospect.mark_as_responded
MarkAsResponded ==
    /\ status' = "responded"
    /\ response_received' = TRUE
    /\ response_date' = <<now>>
    /\ next_followup_date' = None
    /\ lastOp' = "mark_as_responded"
    /\ UNCHANGED <<sequence_position, converted_to_lead, now, advanceCalls>>
    /\ UNCHANGED <<dedupVars, validateVars, campVars, enrichVars, mapsVars, icoVars, registryVars, checkVars, raceVars, fetchVars>>

\* ProspectViewSet.convert_to_lead
ConvertToLead ==
    /\ converted_to_lead' = TRUE
    /\ status' = "converted"
    /\ lastOp' = "convert_to_lead"
    /\ UNCHANGED <<sequence_position, next_followup_date, response_received,
                   response_date, now, advanceCalls>>
    /\ UNCHANGED <<dedupVars, validateVars, campVars, enrichVars, mapsVars, icoVars, registryVars, checkVars, raceVars, fetchVars>>

\* The clock moves on between requests
Tick ==
    /\ now < MaxClock
    /\ now' = now + 1
    /\ lastOp' = "tick"
    /\ UNCHANGED <<status, sequence_position, next_followup_date,
                   response_received, response_date, converted_to_lead,
                   advanceCalls>>
    /\ UNCHANGED <<dedupVars, validateVars, campVars, enrichVars, mapsVars, icoVars, registryVars, checkVars, raceVars, fetchVars>>

\* A freshly created Prospect: the field defaults of the model
ProspectInit ==
    /\ status = "new"
    /\ sequence_position = 0
    /\ next_followup_date = None
    /\ response_received = FALSE
    /\ response_date = None
    /\ converted_to_lead = FALSE
    /\ now = 0
    /\ lastOp = "create"
    /\ advanceCalls = 0
    /\ dd_prospects = <<>>
    /\ dd_result = None
    /\ v_config = None
    /\ v_result = None
    /\ c_pc = "idle"
    /\ c_config = None
    /\ c_max_results = 0
    /\ c_discovery = "none"
    /\ c_businesses = <<>>
    /\ c_processed = 0
    /\ c_prospects = <<>>
    /\ c_checks = {}
    /\ c_calls = {}
    /\ c_errors = {}
    /\ c_result = None
    /\ en_prospect = None
    /\ en_world = None
    /\ en_enriched = None
    /\ b_prospects = <<>>
    /\ b_worlds = <<>>
    /\ b_max_concurrent = 0
    /\ b_i = 0
    /\ b_enriched = <<>>
    /\ b_result = None
    /\ m_world = None
    /\ m_cache = None
    /\ m_max_results = 0
    /\ m_returned = None
    /\ m_searches = 0
    /\ vi_ico = <<>>
    /\ vi_result = None
    /\ p_row = None
    /\ p_ares = None
    /\ p_returned = None
    /\ p_calls = 0
    /\ ck_new = None
    /\ ck_existing = <<>>
    /\ ck_oracle = None
    /\ ck_result = None
    /\ r_row = None
    /\ r_mem = <<>>
    /\ r_now = 0
    /\ r_started = 0
    /\ r_writes = 0
    /\ f_world = <<>>
    /\ f_attempt = 0
    /\ f_result = None

ProspectNext ==
    \/ AdvanceSequence
    \/ MarkAsResponded
    \/ ConvertToLead
    \/ Tick

SpecProspect == ProspectInit /\ [][ProspectNext]_vars

(***************************************************************************)
(* Requests for advance_sequence on one prospect, running side by side     *)
(* (ProspectViewSet.advance_sequence): each request loads the row with     *)
(* get_object, and Prospect.advance_sequence changes the loaded instance   *)
(* and saves it.  There is no transaction, select_for_update or F()        *)
(* expression: the SELECT and the UPDATE are the two atomic steps.         *)
(***************************************************************************)
\* A freshly created prospect, no request under way
RaceInit ==
    /\ status = "new"
    /\ sequence_position = 0
    /\ next_followup_date = None
    /\ response_received = FALSE
    /\ response_date = None
    /\ converted_to_lead = FALSE
    /\ now = 0
    /\ lastOp = "create"
    /\ advanceCalls = 0
    /\ dd_prospects = <<>>
    /\ dd_result = None
    /\ v_config = None
    /\ v_result = None
    /\ c_pc = "idle"
    /\ c_config = None
    /\ c_max_results = 0
    /\ c_discovery = "none"
    /\ c_businesses = <<>>
    /\ c_processed = 0
    /\ c_prospects = <<>>
    /\ c_checks = {}
    /\ c_calls = {}
    /\ c_errors = {}
    /\ c_result = None
    /\ en_prospect = None
    /\ en_world = None
    /\ en_enriched = None
    /\ b_prospects = <<>>
    /\ b_worlds = <<>>
    /\ b_max_concurrent = 0
    /\ b_i = 0
    /\ b_enriched = <<>>
    /\ b_result = None
    /\ m_world = None
    /\ m_cache = None
    /\ m_max_results = 0
    /\ m_returned = None
    /\ m_searches = 0
    /\ vi_ico = <<>>
    /\ vi_result = None
    /\ p_row = None
    /\ p_ares = None
    /\ p_returned = None
    /\ p_calls = 0
    /\ ck_new = None
    /\ ck_existing = <<>>
    /\ ck_oracle = None
    /\ ck_result = None
    /\ r_row = [sequence_position |-> 0, status |-> "new", next_followup_date |-> None]
    /\ r_mem = [q \in 1..NumRequests |-> None]
    /\ r_now = 0
    /\ r_started = 0
    /\ r_writes = 0
    /\ f_world = <<>>
    /\ f_attempt = 0
    /\ f_result = None

\* prospect = self.get_object(): the request reads the row
GetObject(q) ==
    /\ r_mem[q] = None
    /\ r_started < MaxRequests
    /\ r_mem' = [r_mem EXCEPT ![q] = <<r_row>>]
    /\ r_started' = r_started + 1
    /\ UNCHANGED <<r_row, r_now, r_writes>>
    /\ UNCHANGED <<seqVars, dedupVars, validateVars, campVars, enrichVars, mapsVars, icoVars, registryVars, checkVars, fetchVars>>

\* prospect.advance_sequence(): the instance is changed and, below position
\* 4, saved with update_fields sequence_position, status and
\* next_followup_date; then the response is returned
AdvanceAndSave(q) ==
    /\ r_mem[q] # None
    /\ LET self == r_mem[q][1]
           r == AdvanceResult(self.sequence_position, self.status,
                              self.next_followup_date, r_now)
       IN  IF self.sequence_position < FinalPosition
           THEN /\ r_row' = [sequence_position |-> r[1], status |-> r[2],
                             next_followup_date |-> r[3]]
                /\ r_writes' = r_writes + 1
           ELSE UNCHANGED <<r_row, r_writes>>
    /\ r_mem' = [r_mem EXCEPT ![q] = None]
    /\ UNCHANGED <<r_now, r_started>>
    /\ UNCHANGED <<seqVars, dedupVars, validateVars, campVars, enrichVars, mapsVars, icoVars, registryVars, checkVars, fetchVars>>

\* Time passes
RaceTick ==
    /\ r_now < MaxClock
    /\ r_now' = r_now + 1
    /\ UNCHANGED <<r_row, r_mem, r_started, r_writes>>
    /\ UNCHANGED <<seqVars, dedupVars, validateVars, campVars, enrichVars, mapsVars, icoVars, registryVars, checkVars, fetchVars>>

RaceNext ==
    \/ \E q \in 1..NumRequests : GetObject(q)
    \/ \E q \in 1..NumRequests : AdvanceAndSave(q)
    \/ RaceTick

SpecRace == RaceInit /\ [][RaceNext]_vars

(***************************************************************************)
(* Similarity engine (deduplication_service.py)                            *)
(*                                                                         *)
(* Text values are sequences of one-character strings; <<>> is the empty   *)
(* string.  An email is <<local, domain>>, a website is                    *)
(* <<scheme, www, host, path>>.  A similarity is an exact fraction of      *)
(* Scale: 1.0 is Scale, 0.8 is (8 * Scale) \div 10.                        *)
(***************************************************************************)
Scale == 2520 * 1

Tenths(n) == (n * Scale) \div 10

Min(a, b) == IF a < b THEN a ELSE b

Max(a, b) == IF a > b THEN a ELSE b

\* str.lower() on the characters the model uses
Lower(s) ==
    [i \in 1..Len(s) |->
        CASE s[i] = "A" -> "a"
          [] s[i] = "B" -> "b"
          [] s[i] = "C" -> "c"
          [] OTHER -> s[i]]

RECURSIVE LStrip(_)
LStrip(s) == IF s # <<>> /\ Head(s) = " " THEN LStrip(Tail(s)) ELSE s

RECURSIVE RStrip(_)
RStrip(s) ==
    IF s # <<>> /\ s[Len(s)] = " " THEN RStrip(SubSeq(s, 1, Len(s) - 1)) ELSE s

\* str.strip()
Strip(s) == RStrip(LStrip(s))

\* str.endswith(suffix)
EndsWith(s, suffix) ==
    /\ Len(suffix) <= Len(s)
    /\ SubSeq(s, Len(s) - Len(suffix) + 1, Len(s)) = suffix

\* sub in s, on strings
Contains(s, sub) ==
    \E i \in 0..(Len(s) - Len(sub)) : SubSeq(s, i + 1, i + Len(sub)) = sub

\* business_suffixes of _normalize_string, in the order of the list
BusinessSuffixes ==
    << <<"s", ".", "r", ".", "o", ".">>,
       <<"a", ".", "s", ".">>,
       <<"s", "p", "o", "l", ".">>,
       <<"l", "t", "d", ".">>,
       <<"i", "n", "c", ".">>,
       <<"c", "o", "r", "p", ".">>,
       <<"o", ".", "p", ".", "s", ".">> >>

RECURSIVE RemoveSuffixes(_, _)
RemoveSuffixes(s, k) ==
    IF k > Len(BusinessSuffixes) THEN s
    ELSE LET suf == BusinessSuffixes[k]
         IN  IF EndsWith(s, suf)
             THEN RemoveSuffixes(Strip(SubSeq(s, 1, Len(s) - Len(suf))), k + 1)
             ELSE RemoveSuffixes(s, k + 1)

\* re.sub(r'\s+', ' ', s)
RECURSIVE CollapseSpaces(_)
CollapseSpaces(s) ==
    IF Len(s) < 2 THEN s
    ELSE IF s[1] = " " /\ s[2] = " " THEN CollapseSpaces(Tail(s))
    ELSE <<s[1]>> \o CollapseSpaces(Tail(s))

\* DeduplicationService._normalize_string
NormalizeString(s) == CollapseSpaces(RemoveSuffixes(Strip(Lower(s)), 1))

\* difflib.SequenceMatcher.find_longest_match on a[alo..ahi], b[blo..bhi]:
\* the longest common block, the earliest in a, then the earliest in b;
\* <<0, 0, 0>> when the ranges share no character
LongestMatch(a, b, alo, ahi, blo, bhi) ==
    LET blocks == {m \in (alo..ahi) \X (blo..bhi) \X (1..(ahi - alo + 1)) :
                      /\ m[1] + m[3] - 1 <= ahi
                      /\ m[2] + m[3] - 1 <= bhi
                      /\ \A d \in 0..(m[3] - 1) : a[m[1] + d] = b[m[2] + d]}
    IN  IF blocks = {} THEN <<0, 0, 0>>
        ELSE CHOOSE m \in blocks : \A n \in blocks :
                \/ m[3] > n[3]
                \/ m[3] = n[3] /\ m[1] < n[1]
                \/ m[3] = n[3] /\ m[1] = n[1] /\ m[2] <= n[2]

\* Sum of the sizes of SequenceMatcher.get_matching_blocks
RECURSIVE MatchingSize(_, _, _, _, _, _)
MatchingSize(a, b, alo, ahi, blo, bhi) ==
    IF alo > ahi \/ blo > bhi THEN 0
    ELSE LET m == LongestMatch(a, b, alo, ahi, blo, bhi)
         IN  IF m[3] = 0 THEN 0
             ELSE m[3]
                  + MatchingSize(a, b, alo, m[1] - 1, blo, m[2] - 1)
                  + MatchingSize(a, b, m[1] + m[3], ahi, m[2] + m[3], bhi)

\* difflib.SequenceMatcher(None, a, b).ratio() = 2.0 * matches / length
Ratio(a, b) ==
    IF Len(a) + Len(b) = 0 THEN Scale
    ELSE (2 * MatchingSize(a, b, 1, Len(a), 1, Len(b)) * Scale)
            \div (Len(a) + Len(b))

\* DeduplicationService._calculate_string_similarity
CalculateStringSimilarity(str1, str2) ==
    IF str1 = <<>> \/ str2 = <<>> THEN 0
    ELSE LET n1 == NormalizeString(str1)
             n2 == NormalizeString(str2)
         IN  IF n1 = n2 THEN Scale
             ELSE IF Contains(n2, n1) \/ Contains(n1, n2)
                  THEN Max(Ratio(n1, n2), Tenths(8))
                  ELSE Ratio(n1, n2)

\* DeduplicationService._calculate_email_similarity (emails are lower case;
\* the domain is what follows the '@')
CalculateEmailSimilarity(email1, email2) ==
    IF email1 = <<>> \/ email2 = <<>> THEN 0
    ELSE IF email1 = email2 THEN Scale
    ELSE IF email1[2] # "" /\ email2[2] # "" /\ email1[2] = email2[2]
         THEN Tenths(8)
    ELSE 0

\* re.sub(r'[^\d+]', '', phone)
NormalizePhone(phone) ==
    SelectSeq(phone, LAMBDA c : c \in {"0", "1", "2", "3", "4", "5", "6", "7",
                                       "8", "9", "+"})

\* DeduplicationService._calculate_phone_similarity
CalculatePhoneSimilarity(phone1, phone2) ==
    IF phone1 = <<>> \/ phone2 = <<>> THEN 0
    ELSE LET n1 == NormalizePhone(phone1)
             n2 == NormalizePhone(phone2)
         IN  IF n1 = n2 THEN Scale
             ELSE IF /\ Len(n1) > 6
                     /\ Len(n2) > 6
                     /\ (Contains(n2, n1) \/ Contains(n1, n2))
                  THEN Tenths(9)
             ELSE 0

\* normalize_url of _calculate_website_similarity: scheme, "www." and the
\* trailing slash are dropped; what is left is <<host, path>>
NormalizeUrl(website) ==
    <<website[3], IF website[4] = "/" THEN "" ELSE website[4]>>

\* DeduplicationService._calculate_website_similarity
CalculateWebsiteSimilarity(website1, website2) ==
    IF website1 = <<>> \/ website2 = <<>> THEN 0
    ELSE LET n1 == NormalizeUrl(website1)
             n2 == NormalizeUrl(website2)
         IN  IF n1 = n2 THEN Scale
             ELSE IF n1[1] = n2[1] THEN Tenths(9)
             ELSE 0

\* Weights of DeduplicationService.__init__ and _calculate_similarity, in
\* hundredths
EmailWeight == 40
CompanyWeight == 30
PhoneWeight == 15
AddressWeight == 15
IcoWeight == 30
WebsiteWeight == 20

\* similarity_threshold, in hundredths
SimilarityThreshold == 85

\* The divisor of _calculate_similarity: the sum of all six weights
WeightTotal ==
    EmailWeight + CompanyWeight + PhoneWeight + AddressWeight
        + IcoWeight + WebsiteWeight

\* One whole (1.0) in the unit of CalculateSimilarity
One == Scale * WeightTotal

\* DeduplicationService._calculate_similarity, in units of 1 / One
CalculateSimilarity(p1, p2) ==
    LET email_sim == CalculateEmailSimilarity(p1.email_address, p2.email_address)
        company_sim == CalculateStringSimilarity(p1.company_name, p2.company_name)
        phone_sim == CalculatePhoneSimilarity(p1.phone_number, p2.phone_number)
        address_sim == CalculateStringSimilarity(p1.location, p2.location)
        ico_sim == IF p1.ico # <<>> /\ p2.ico # <<>> /\ p1.ico = p2.ico
                   THEN Scale ELSE 0
        website_sim == CalculateWebsiteSimilarity(p1.website, p2.website)
        total == email_sim * EmailWeight + company_sim * CompanyWeight
                   + phone_sim * PhoneWeight + address_sim * AddressWeight
                   + ico_sim * IcoWeight + website_sim * WebsiteWeight
    IN  Min(total, One)

\* similarity > self.similarity_threshold
AboveThreshold(sim) == sim * 100 > SimilarityThreshold * One

(***************************************************************************)
(* Deduplication of a list (deduplication_service.py)                      *)
(***************************************************************************)
\* any(generic in email.lower() for generic in ['info@', 'contact@',
\* 'admin@']): the local parts of the model are whole words, so the local
\* part is the generic word itself
IsGenericEmail(email) ==
    /\ email # <<>>
    /\ email[2] # ""
    /\ email[1] \in {"info", "contact", "admin"}

\* The completeness score of _select_best_prospect
CompletenessScore(p) ==
    (IF p.company_name # <<>> THEN 10 ELSE 0)
    + (IF p.email_address # <<>> /\ p.email_address[2] # "" THEN 15 ELSE 0)
    + (IF p.phone_number # <<>> THEN 10 ELSE 0)
    + (IF p.website # <<>> THEN 8 ELSE 0)
    + (IF p.ico # <<>> THEN 12 ELSE 0)
    + (IF p.industry # <<>> THEN 5 ELSE 0)
    + (IF p.location # <<>> THEN 5 ELSE 0)
    + (IF p.description # <<>> THEN Len(p.description) \div 10 ELSE 0)
    - (IF IsGenericEmail(p.email_address) THEN 5 ELSE 0)

\* The position _select_best_prospect picks in a group: the highest score,
\* the first of equals (list.sort is stable, also with reverse=True)
BestIndex(group) ==
    CHOOSE k \in 1..Len(group) :
        /\ \A n \in 1..Len(group) :
              CompletenessScore(group[k]) >= CompletenessScore(group[n])
        /\ \A n \in 1..(k - 1) :
              CompletenessScore(group[n]) < CompletenessScore(group[k])

\* DeduplicationService._select_best_prospect on a non-empty group
SelectBestProspect(group) ==
    IF Len(group) = 1 THEN group[1] ELSE group[BestIndex(group)]

\* The inner loop without the test of processed_ids
RECURSIVE FindDuplicatesIgnoringProcessed(_, _, _, _)
FindDuplicatesIgnoringProcessed(prospects, i, j, processed) ==
    IF j > Len(prospects) THEN <<>>
    ELSE LET similarity == CalculateSimilarity(prospects[i], prospects[j])
         IN  IF AboveThreshold(similarity)
             THEN <<[index |-> j, similarity |-> similarity]>>
                     \o FindDuplicatesIgnoringProcessed(prospects, i, j + 1, processed)
             ELSE FindDuplicatesIgnoringProcessed(prospects, i, j + 1, processed)

\* The inner loop of deduplicate_prospect_list for master i: the later,
\* unprocessed records whose similarity to the master is above the threshold
RECURSIVE FindDuplicates(_, _, _, _)
FindDuplicates(prospects, i, j, processed) ==
    IF j > Len(prospects) THEN <<>>
    ELSE IF j \in processed THEN FindDuplicates(prospects, i, j + 1, processed)
    ELSE LET similarity == CalculateSimilarity(prospects[i], prospects[j])
         IN  IF AboveThreshold(similarity)
             THEN <<[index |-> j, similarity |-> similarity]>>
                     \o FindDuplicates(prospects, i, j + 1, processed)
             ELSE FindDuplicates(prospects, i, j + 1, processed)

\* The outer loop of deduplicate_prospect_list from record i on
RECURSIVE DedupLoop(_, _, _, _, _)
DedupLoop(prospects, i, processed, unique, groups) ==
    IF i > Len(prospects)
    THEN [unique_prospects |-> unique,
          duplicate_groups |-> groups,
          original_count |-> Len(prospects),
          unique_count |-> Len(unique),
          duplicates_removed |-> Len(prospects) - Len(unique)]
    ELSE IF i \in processed
    THEN DedupLoop(prospects, i + 1, processed, unique, groups)
    ELSE LET dups == FindDuplicates(prospects, i, i + 1, processed)
             found == {dups[k].index : k \in 1..Len(dups)}
         IN  IF dups # <<>>
             THEN DedupLoop(prospects, i + 1, processed \cup found,
                     Append(unique,
                        SelectBestProspect(
                           <<prospects[i]>>
                              \o [k \in 1..Len(dups) |-> prospects[dups[k].index]])),
                     Append(groups, [master |-> i,
                                     duplicates |-> dups,
                                     total_count |-> Len(dups) + 1]))
             ELSE DedupLoop(prospects, i + 1, processed,
                            Append(unique, prospects[i]), groups)

\* DeduplicationService.deduplicate_prospect_list
DeduplicateProspectList(prospects) == DedupLoop(prospects, 1, {}, <<>>, <<>>)

(***************************************************************************)
(* Input records of the deduplication model                                *)
(***************************************************************************)
SimilarityFields ==
    {"company_name", "email_address", "phone_number", "location", "ico",
     "website"}

AllFields == SimilarityFields \cup {"industry", "description"}

\* "Ab s.r.o.", jan@ab.cz, +420 123 4567, https://www.ab.cz/
BaseRecordA ==
    [company_name |-> <<"A", "b", " ", "s", ".", "r", ".", "o", ".">>,
     email_address |-> <<"jan", "ab.cz">>,
     phone_number |-> <<"+", "4", "2", "0", " ", "1", "2", "3", " ", "4", "5",
                        "6", "7">>,
     location |-> <<"a", "a">>,
     ico |-> <<"1">>,
     website |-> <<"https://", TRUE, "ab.cz", "/">>,
     industry |-> <<"i">>,
     description |-> <<>>]

\* The same company entered by hand: "ab", info@ab.cz, 0123 4567,
\* http://ab.cz/about
BaseRecordA2 ==
    [company_name |-> <<"a", "b">>,
     email_address |-> <<"info", "ab.cz">>,
     phone_number |-> <<"0", "1", "2", "3", "4", "5", "6", "7">>,
     location |-> <<"a", "a">>,
     ico |-> <<"1">>,
     website |-> <<"http://", FALSE, "ab.cz", "/about">>,
     industry |-> <<>>,
     description |-> <<"x", "x", "x", "x", "x", "x", "x", "x", "x", "x">>]

\* Another company: "cb", eva@cb.cz
BaseRecordB ==
    [company_name |-> <<"c", "b">>,
     email_address |-> <<"eva", "cb.cz">>,
     phone_number |-> <<"7", "6", "5", "4", "3", "2", "1">>,
     location |-> <<"b", "c">>,
     ico |-> <<"2">>,
     website |-> <<"https://", FALSE, "cb.cz", "">>,
     industry |-> <<"i">>,
     description |-> <<>>]

\* The record with only the fields of `populated` filled in
Populate(r, populated) ==
    [f \in AllFields |-> IF f \in populated THEN r[f] ELSE <<>>]

\* The sets of fields a record of the model populates
FieldMasks ==
    {AllFields,
     AllFields \ {"phone_number"},
     {"company_name", "email_address", "phone_number", "location"},
     {"company_name", "email_address"}}

DedupPool ==
    {Populate(r, m) : r \in {BaseRecordA, BaseRecordA2, BaseRecordB},
                      m \in FieldMasks}

RECURSIVE ListsUpTo(_, _)
ListsUpTo(S, n) ==
    IF n = 0 THEN {<<>>}
    ELSE LET shorter == ListsUpTo(S, n - 1)
         IN  shorter \cup {Append(l, x) : l \in {k \in shorter : Len(k) = n - 1},
                                          x \in S}

\* The caller passes a list of at most MaxList records; no prospect row is
\* touched
DedupInit ==
    /\ dd_prospects \in ListsUpTo(DedupPool, MaxList)
    /\ dd_result = None
    /\ status = "new"
    /\ sequence_position = 0
    /\ next_followup_date = None
    /\ response_received = FALSE
    /\ response_date = None
    /\ converted_to_lead = FALSE
    /\ now = 0
    /\ lastOp = "create"
    /\ advanceCalls = 0
    /\ v_config = None
    /\ v_result = None
    /\ c_pc = "idle"
    /\ c_config = None
    /\ c_max_results = 0
    /\ c_discovery = "none"
    /\ c_businesses = <<>>
    /\ c_processed = 0
    /\ c_prospects = <<>>
    /\ c_checks = {}
    /\ c_calls = {}
    /\ c_errors = {}
    /\ c_result = None
    /\ en_prospect = None
    /\ en_world = None
    /\ en_enriched = None
    /\ b_prospects = <<>>
    /\ b_worlds = <<>>
    /\ b_max_concurrent = 0
    /\ b_i = 0
    /\ b_enriched = <<>>
    /\ b_result = None
    /\ m_world = None
    /\ m_cache = None
    /\ m_max_results = 0
    /\ m_returned = None
    /\ m_searches = 0
    /\ vi_ico = <<>>
    /\ vi_result = None
    /\ p_row = None
    /\ p_ares = None
    /\ p_returned = None
    /\ p_calls = 0
    /\ ck_new = None
    /\ ck_existing = <<>>
    /\ ck_oracle = None
    /\ ck_result = None
    /\ r_row = None
    /\ r_mem = <<>>
    /\ r_now = 0
    /\ r_started = 0
    /\ r_writes = 0
    /\ f_world = <<>>
    /\ f_attempt = 0
    /\ f_result = None

\* deduplication_service.deduplicate_prospect_list(prospects)
DeduplicateList ==
    /\ dd_result = None
    /\ dd_result' = DeduplicateProspectList(dd_prospects)
    /\ UNCHANGED <<dd_prospects, seqVars, validateVars, campVars, enrichVars, mapsVars, icoVars, registryVars, checkVars, raceVars, fetchVars>>

SpecDedup == DedupInit /\ [][DeduplicateList]_vars

(***************************************************************************)
(* Campaign configuration (lead_generation_service.py)                     *)
(*                                                                         *)
(* A value of the config dict is [t, v]: t = "absent" for a missing key,   *)
(* "int" for an integer v, "str" for a value that is not an integer.       *)
(* keyword and location are strings, "" when missing or empty.             *)
(***************************************************************************)
Absent == [t |-> "absent", v |-> 0]

IntVal(n) == [t |-> "int", v |-> n]

NotInt == [t |-> "str", v |-> 0]

\* dict.get(key, default)
Get(val, default) == IF val.t = "absent" THEN IntVal(default) ELSE val

\* self.max_prospects_per_campaign
max_prospects_per_campaign == 100

\* self.default_search_radius
default_search_radius == 5000

\* The default of config.get('max_results', 20)
DefaultMaxResults == 20

MinRadius == 100

MaxRadius == 50000

\* validate_campaign_config with a max_results above the service maximum
\* rejected instead of capped
ValidateCampaignConfigStrict(config) ==
    LET max_results == Get(config.max_results, DefaultMaxResults)
        radius == Get(config.radius, default_search_radius)
        errors ==
            (IF config.keyword = "" THEN <<"Keyword is required">> ELSE <<>>)
            \o (IF config.location = "" THEN <<"Location is required">> ELSE <<>>)
            \o (IF max_results.t # "int" \/ max_results.v < 1
                   \/ max_results.v > max_prospects_per_campaign
                THEN <<"max_results must be a positive integer">> ELSE <<>>)
        warnings ==
            IF radius.t # "int" \/ radius.v < MinRadius
            THEN <<"radius should be at least 100 meters">>
            ELSE IF radius.v > MaxRadius
            THEN <<"radius should not exceed 50km for optimal results">>
            ELSE <<>>
    IN  [is_valid |-> Len(errors) = 0, errors |-> errors, warnings |-> warnings]

\* LeadGenerationService.validate_campaign_config
ValidateCampaignConfig(config) ==
    LET max_results == Get(config.max_results, DefaultMaxResults)
        radius == Get(config.radius, default_search_radius)
        errors ==
            (IF config.keyword = "" THEN <<"Keyword is required">> ELSE <<>>)
            \o (IF config.location = "" THEN <<"Location is required">> ELSE <<>>)
            \o (IF max_results.t # "int" \/ max_results.v < 1
                THEN <<"max_results must be a positive integer">> ELSE <<>>)
        warnings ==
            (IF max_results.t = "int" /\ max_results.v >= 1
                  /\ max_results.v > max_prospects_per_campaign
             THEN <<"max_results capped at 100">> ELSE <<>>)
            \o (IF radius.t # "int" \/ radius.v < MinRadius
                THEN <<"radius should be at least 100 meters">>
                ELSE IF radius.v > MaxRadius
                THEN <<"radius should not exceed 50km for optimal results">>
                ELSE <<>>)
    IN  [is_valid |-> Len(errors) = 0, errors |-> errors, warnings |-> warnings]

\* The values of max_results and radius a caller sends
MaxResultsValues ==
    {Absent, NotInt, IntVal(0 - 1), IntVal(0), IntVal(1), IntVal(max_prospects_per_campaign),
     IntVal(max_prospects_per_campaign + 1), IntVal(2 * max_prospects_per_campaign)}

RadiusValues ==
    {Absent, NotInt, IntVal(MinRadius - 1), IntVal(MinRadius), IntVal(MaxRadius),
     IntVal(MaxRadius + 1)}

\* A caller's config dict
ValidateInit ==
    /\ v_config \in [keyword : {"", "restaurace"},
                     location : {"", "Praha"},
                     max_results : MaxResultsValues,
                     radius : RadiusValues,
                     enable_ai_analysis : BOOLEAN,
                     enable_website_scraping : {TRUE},
                     enable_deduplication : {TRUE}]
    /\ v_result = None
    /\ status = "new"
    /\ sequence_position = 0
    /\ next_followup_date = None
    /\ response_received = FALSE
    /\ response_date = None
    /\ converted_to_lead = FALSE
    /\ now = 0
    /\ lastOp = "create"
    /\ advanceCalls = 0
    /\ dd_prospects = <<>>
    /\ dd_result = None
    /\ c_pc = "idle"
    /\ c_config = None
    /\ c_max_results = 0
    /\ c_discovery = "none"
    /\ c_businesses = <<>>
    /\ c_processed = 0
    /\ c_prospects = <<>>
    /\ c_checks = {}
    /\ c_calls = {}
    /\ c_errors = {}
    /\ c_result = None
    /\ en_prospect = None
    /\ en_world = None
    /\ en_enriched = None
    /\ b_prospects = <<>>
    /\ b_worlds = <<>>
    /\ b_max_concurrent = 0
    /\ b_i = 0
    /\ b_enriched = <<>>
    /\ b_result = None
    /\ m_world = None
    /\ m_cache = None
    /\ m_max_results = 0
    /\ m_returned = None
    /\ m_searches = 0
    /\ vi_ico = <<>>
    /\ vi_result = None
    /\ p_row = None
    /\ p_ares = None
    /\ p_returned = None
    /\ p_calls = 0
    /\ ck_new = None
    /\ ck_existing = <<>>
    /\ ck_oracle = None
    /\ ck_result = None
    /\ r_row = None
    /\ r_mem = <<>>
    /\ r_now = 0
    /\ r_started = 0
    /\ r_writes = 0
    /\ f_world = <<>>
    /\ f_attempt = 0
    /\ f_result = None

\* lead_generation_service.validate_campaign_config(config)
ValidateConfig ==
    /\ v_result = None
    /\ v_result' = ValidateCampaignConfig(v_config)
    /\ UNCHANGED <<v_config, seqVars, dedupVars, campVars, enrichVars, mapsVars, icoVars, registryVars, checkVars, raceVars, fetchVars>>

SpecValidate == ValidateInit /\ [][ValidateConfig]_vars

(***************************************************************************)
(* One listing through the pipeline                                        *)
(* (lead_generation_service._process_single_business)                      *)
(*                                                                         *)
(* A listing is what maps_service._process_place_result builds; absent and *)
(* empty fields are <<>>, a flag or number that was set is <<value>>.      *)
(* The outcomes of the adapters (website fetch, registry, store check,     *)
(* oracle) are inputs of the step.                                         *)
(***************************************************************************)
\* The quality a draft needs to be kept: quality_score > 30
QualityThreshold == 30

\* The store check drops a draft above this confidence
DuplicateDropConfidence == 80

\* quality_score of a draft whose AI analysis failed
AiFailureScore == 50

\* A listing with a website: "Ab s.r.o.", https://www.ab.cz/
ListingA ==
    [place_id |-> 0,
     name |-> BaseRecordA.company_name,
     website |-> BaseRecordA.website,
     phone |-> BaseRecordA.phone_number,
     address |-> BaseRecordA.location,
     category |-> BaseRecordA.industry]

\* A listing with a name and a phone only: "cb"
ListingB ==
    [place_id |-> 0,
     name |-> BaseRecordB.company_name,
     website |-> <<>>,
     phone |-> BaseRecordB.phone_number,
     address |-> BaseRecordB.location,
     category |-> <<>>]

\* The basic prospect data built from a listing
BuildDraft(business) ==
    [company_name |-> business.name,
     website |-> business.website,
     phone_number |-> business.phone,
     location |-> business.address,
     industry |-> business.category,
     google_place_id |-> business.place_id,
     email_address |-> <<>>,
     contact_name |-> <<>>,
     ico |-> <<>>,
     description |-> <<>>,
     website_scraped |-> None,
     ares_enriched |-> None,
     dedup_checked |-> None,
     dedup_confidence |-> None,
     ai_analyzed |-> None,
     quality_score |-> None]

\* What the website adapter does for a site: it raises, or returns
\* website_data of extract_contact_info ({} when the site cannot be read,
\* else a dict with emails, phones and addresses and no business_info) and
\* the list of find_key_personnel
ScrapeOutcomes ==
    {[raises |-> TRUE, website_data |-> None, personnel |-> <<>>],
     [raises |-> FALSE, website_data |-> None, personnel |-> <<>>],
     [raises |-> FALSE,
      website_data |-> [emails |-> <<<<"info", "ab.cz">>, <<"jan", "ab.cz">>>>,
                        business_info |-> None],
      personnel |-> <<<<"J", "N">>>>],
     [raises |-> FALSE,
      website_data |-> [emails |-> <<<<"info", "ab.cz">>>>,
                        business_info |-> None],
      personnel |-> <<>>]}

\* What the registry does for an ICO: it raises, or returns None or details
\* with key_personnel
RegistryOutcomes ==
    {None,
     [raises |-> TRUE, key_personnel |-> <<>>],
     [raises |-> FALSE, key_personnel |-> <<<<"E", "K">>>>]}

\* What check_for_duplicates does: it raises, or returns a verdict
Verdicts ==
    {[raises |-> TRUE, is_duplicate |-> FALSE, confidence |-> 0],
     [raises |-> FALSE, is_duplicate |-> FALSE, confidence |-> 0],
     [raises |-> FALSE, is_duplicate |-> FALSE,
      confidence |-> DuplicateDropConfidence + 1],
     [raises |-> FALSE, is_duplicate |-> TRUE,
      confidence |-> DuplicateDropConfidence],
     [raises |-> FALSE, is_duplicate |-> TRUE,
      confidence |-> DuplicateDropConfidence + 1]}

\* What analyze_prospect_quality does: returns an error object, raises,
\* returns an analysis with a quality_score, or returns an analysis whose
\* quality_score is null
AiOutcomes ==
    {[kind |-> "error", quality_score |-> 0],
     [kind |-> "raise", quality_score |-> 0],
     [kind |-> "null", quality_score |-> 0],
     [kind |-> "ok", quality_score |-> 20],
     [kind |-> "ok", quality_score |-> 80]}

\* Step 1: website scraping for contact info
ScrapeStep(prospect, scrape) ==
    IF scrape.raises THEN [prospect EXCEPT !.website_scraped = <<FALSE>>]
    ELSE IF scrape.website_data = None THEN prospect
    ELSE LET emails == scrape.website_data.emails
             non_generic == SelectSeq(emails, LAMBDA e : ~IsGenericEmail(e))
             withEmail ==
                 IF emails = <<>> THEN prospect
                 ELSE [prospect EXCEPT !.email_address =
                          IF non_generic # <<>> THEN non_generic[1] ELSE emails[1]]
             withPerson ==
                 IF scrape.personnel = <<>> THEN withEmail
                 ELSE [withEmail EXCEPT !.contact_name = scrape.personnel[1]]
             business_info == scrape.website_data.business_info
             withIco ==
                 IF business_info # None /\ business_info.ico # <<>>
                 THEN [withPerson EXCEPT !.ico = business_info.ico]
                 ELSE withPerson
         IN  [withIco EXCEPT !.website_scraped = <<TRUE>>]

\* Step 2: ARES enrichment, run when an ICO was found
AresStep(prospect, ares_data) ==
    IF ares_data = None THEN prospect
    ELSE IF ares_data.raises THEN [prospect EXCEPT !.ares_enriched = <<FALSE>>]
    ELSE LET enriched == [prospect EXCEPT !.ares_enriched = <<TRUE>>]
         IN  IF prospect.contact_name = <<>> /\ ares_data.key_personnel # <<>>
             THEN [enriched EXCEPT !.contact_name = ares_data.key_personnel[1]]
             ELSE enriched

\* The store check with the drop confidence included in the dropped range
StoreCheckDropsInclusive(dedup_result) ==
    dedup_result.is_duplicate /\ dedup_result.confidence >= DuplicateDropConfidence

\* Step 3: the draft is skipped when the store check says so
StoreCheckDrops(dedup_result) ==
    dedup_result.is_duplicate /\ dedup_result.confidence > DuplicateDropConfidence

\* LeadGenerationService._calculate_basic_quality_score
CalculateBasicQualityScore(prospect) ==
    Min((IF prospect.company_name # <<>> THEN 20 ELSE 0)
        + (IF prospect.email_address # <<>> THEN 25 ELSE 0)
        + (IF prospect.phone_number # <<>> THEN 15 ELSE 0)
        + (IF prospect.website # <<>> THEN 15 ELSE 0)
        + (IF prospect.contact_name # <<>> THEN 15 ELSE 0)
        + (IF prospect.ico # <<>> THEN 10 ELSE 0),
        100)

\* Step 4: AI quality analysis, or the basic score without AI
ScoreStep(prospect, enable_ai, ai_analysis) ==
    IF enable_ai
    THEN IF ai_analysis.kind = "ok"
         THEN [prospect EXCEPT !.quality_score = ai_analysis.quality_score,
                               !.ai_analyzed = <<TRUE>>]
         ELSE IF ai_analysis.kind = "null"
         THEN [prospect EXCEPT !.quality_score = None,
                               !.ai_analyzed = <<TRUE>>]
         ELSE [prospect EXCEPT !.quality_score = AiFailureScore,
                               !.ai_analyzed = <<FALSE>>]
    ELSE [prospect EXCEPT !.quality_score = CalculateBasicQualityScore(prospect)]

\* LeadGenerationService._process_single_business: the prospect it returns
\* (None when the store check skips it), whether its quality_score can be
\* compared with a number, and the adapters it called; a
\* verdict with a confidence comes from check_for_duplicates asking the
\* oracle about the fuzzy matches
ProcessSingleBusiness(business, config, scrape, ares_data, dedup_result, ai_analysis) ==
    LET basic == BuildDraft(business)
        scraping == config.enable_website_scraping /\ basic.website # <<>>
        scraped == IF scraping THEN ScrapeStep(basic, scrape) ELSE basic
        lookup == scraped.ico # <<>>
        enriched == IF lookup THEN AresStep(scraped, ares_data) ELSE scraped
        dedup == config.enable_deduplication
        dropped == dedup /\ ~dedup_result.raises /\ StoreCheckDrops(dedup_result)
        checked ==
            IF dedup
            THEN IF dedup_result.raises
                 THEN [enriched EXCEPT !.dedup_checked = <<FALSE>>]
                 ELSE [enriched EXCEPT
                          !.dedup_checked = <<TRUE>>,
                          !.dedup_confidence = <<dedup_result.confidence>>]
            ELSE enriched
        calls == (IF scraping THEN {"website"} ELSE {})
                 \cup (IF lookup THEN {"registry"} ELSE {})
                 \cup (IF dedup /\ dedup_result.confidence > 0
                       THEN {"oracle"} ELSE {})
                 \cup (IF config.enable_ai_analysis /\ ~dropped
                       THEN {"oracle"} ELSE {})
    IN  [prospect |-> IF dropped THEN None
                      ELSE ScoreStep(checked, config.enable_ai_analysis,
                                     ai_analysis),
         dropped |-> dropped,
         score_is_number |-> ~(config.enable_ai_analysis
                               /\ ai_analysis.kind = "null"),
         calls |-> calls]

(***************************************************************************)
(* A campaign request                                                      *)
(* (views.generate_prospects_campaign,                                     *)
(*  lead_generation_service.generate_prospects_campaign,                   *)
(*  maps_service.search_businesses)                                        *)
(***************************************************************************)
\* max_results taken from the config as it is, without the service maximum
CampaignQuotaUncapped(config) == Get(config.max_results, DefaultMaxResults).v

\* max_results of the campaign: min(config.get('max_results', 20), 100)
CampaignQuota(config) ==
    Min(Get(config.max_results, DefaultMaxResults).v, max_prospects_per_campaign)

\* The place of prospects[i] after a sort without reverse=True
SortedPositionAscending(prospects, i) ==
    Cardinality({j \in 1..Len(prospects) :
                    \/ prospects[j].quality_score < prospects[i].quality_score
                    \/ /\ prospects[j].quality_score = prospects[i].quality_score
                       /\ j < i}) + 1

\* list.sort(key=quality_score, reverse=True) is descending and stable.
\* The place of prospects[i] after the sort: behind every higher score and
\* behind the earlier records of the same score
SortedPosition(prospects, i) ==
    Cardinality({j \in 1..Len(prospects) :
                    \/ prospects[j].quality_score > prospects[i].quality_score
                    \/ /\ prospects[j].quality_score = prospects[i].quality_score
                       /\ j < i}) + 1

SortByQuality(prospects) ==
    LET position == [i \in 1..Len(prospects) |-> SortedPosition(prospects, i)]
    IN  [k \in 1..Len(prospects) |->
            prospects[CHOOSE i \in 1..Len(prospects) : position[i] = k]]

\* prospects[:n]
Slice(prospects, n) ==
    IF n >= 0 THEN SubSeq(prospects, 1, Min(n, Len(prospects)))
    ELSE SubSeq(prospects, 1, Max(0, Len(prospects) + n))

\* The listings as discovery returns them: each place has its own place_id
Discovered(listings) ==
    [k \in 1..Len(listings) |-> [listings[k] EXCEPT !.place_id = k]]

\* What the places provider (or the search cache) holds for a search: up to
\* MaxListings listings, or, for a campaign that asks neither the store nor
\* the oracle, a long page of plain listings that exceeds the service maximum
LongPage == [k \in 1..(max_prospects_per_campaign + 2) |-> ListingB]

ProviderListings(config) ==
    {Discovered(l) : l \in ListsUpTo({ListingA, ListingB}, MaxListings)
                           \cup (IF config.enable_ai_analysis
                                    \/ config.enable_deduplication
                                 THEN {} ELSE {LongPage})}

\* The dict a finished request returns
CampaignError(error) ==
    [success |-> <<FALSE>>, error |-> error, prospects |-> <<>>,
     total_found |-> 0, total_processed |-> 0, total_qualified |-> 0]

\* The configs a caller sends: the invalid ones, and the valid ones with
\* every combination of the feature toggles
CampaignConfigs ==
    [keyword : {"", "restaurace"}, location : {"", "Praha"},
     max_results : {IntVal(1)}, radius : {Absent},
     enable_ai_analysis : {TRUE}, enable_website_scraping : {TRUE},
     enable_deduplication : {TRUE}]
    \cup
    [keyword : {"restaurace"}, location : {"Praha"},
     max_results : {NotInt, IntVal(0 - 1), IntVal(0), Absent}, radius : {Absent},
     enable_ai_analysis : {TRUE}, enable_website_scraping : {TRUE},
     enable_deduplication : {TRUE}]
    \cup
    [keyword : {"restaurace"}, location : {"Praha"},
     max_results : {IntVal(1), IntVal(2), IntVal(2 * max_prospects_per_campaign)},
     radius : {Absent},
     enable_ai_analysis : BOOLEAN, enable_website_scraping : BOOLEAN,
     enable_deduplication : BOOLEAN]

\* A request arrives at the view ("validate") or the service is called with
\* the config directly ("extract")
CampaignInit ==
    /\ c_pc \in {"validate", "extract"}
    /\ c_config \in CampaignConfigs
    /\ c_max_results = 0
    /\ c_discovery = "none"
    /\ c_businesses = <<>>
    /\ c_processed = 0
    /\ c_prospects = <<>>
    /\ c_checks = {}
    /\ c_calls = {}
    /\ c_errors = {}
    /\ c_result = None
    /\ en_prospect = None
    /\ en_world = None
    /\ en_enriched = None
    /\ b_prospects = <<>>
    /\ b_worlds = <<>>
    /\ b_max_concurrent = 0
    /\ b_i = 0
    /\ b_enriched = <<>>
    /\ b_result = None
    /\ m_world = None
    /\ m_cache = None
    /\ m_max_results = 0
    /\ m_returned = None
    /\ m_searches = 0
    /\ vi_ico = <<>>
    /\ vi_result = None
    /\ p_row = None
    /\ p_ares = None
    /\ p_returned = None
    /\ p_calls = 0
    /\ ck_new = None
    /\ ck_existing = <<>>
    /\ ck_oracle = None
    /\ ck_result = None
    /\ r_row = None
    /\ r_mem = <<>>
    /\ r_now = 0
    /\ r_started = 0
    /\ r_writes = 0
    /\ f_world = <<>>
    /\ f_attempt = 0
    /\ f_result = None
    /\ status = "new"
    /\ sequence_position = 0
    /\ next_followup_date = None
    /\ response_received = FALSE
    /\ response_date = None
    /\ converted_to_lead = FALSE
    /\ now = 0
    /\ lastOp = "create"
    /\ advanceCalls = 0
    /\ dd_prospects = <<>>
    /\ dd_result = None
    /\ v_config = None
    /\ v_result = None

\* views.generate_prospects_campaign up to the service call: an invalid
\* config is answered with 400 and the errors
ValidateRequest ==
    /\ c_pc = "validate"
    /\ LET validation_result == ValidateCampaignConfig(c_config)
       IN  IF ~validation_result.is_valid
           THEN /\ c_pc' = "done"
                /\ c_result' = CampaignError(validation_result.errors)
           ELSE /\ c_pc' = "extract"
                /\ UNCHANGED c_result
    /\ UNCHANGED <<c_config, c_max_results, c_discovery, c_businesses,
                   c_processed, c_prospects, c_checks, c_calls, c_errors>>
    /\ UNCHANGED <<seqVars, dedupVars, validateVars, enrichVars, mapsVars, icoVars, registryVars, checkVars, raceVars, fetchVars>>

\* generate_prospects_campaign, "Extract configuration": min() of a value
\* that is not a number raises and the handler's except returns the failure
StartCampaign ==
    /\ c_pc = "extract"
    /\ IF Get(c_config.max_results, DefaultMaxResults).t # "int"
       THEN /\ c_pc' = "done"
            /\ c_result' = CampaignError(<<"TypeError">>)
            /\ UNCHANGED c_max_results
       ELSE /\ c_max_results' = CampaignQuota(c_config)
            /\ IF c_config.keyword = "" \/ c_config.location = ""
               THEN /\ c_pc' = "done"
                    /\ c_result' =
                          [CampaignError(<<"Keyword and location are required">>)
                              EXCEPT !.success = None]
               ELSE /\ c_pc' = "search"
                    /\ UNCHANGED c_result
    /\ UNCHANGED <<c_config, c_discovery, c_businesses, c_processed,
                   c_prospects, c_checks, c_calls, c_errors>>
    /\ UNCHANGED <<seqVars, dedupVars, validateVars, enrichVars, mapsVars, icoVars, registryVars, checkVars, raceVars, fetchVars>>

\* The end of the request once maps_service.search_businesses has returned
\* `businesses` after the calls `calls`
Searched(how, businesses, calls) ==
    /\ c_discovery' = how
    /\ c_calls' = c_calls \cup calls
    /\ c_businesses' = businesses
    /\ IF businesses = <<>>
       THEN /\ c_pc' = "done"
            /\ c_result' =
                  CampaignError(<<"No businesses found for the given criteria">>)
       ELSE /\ c_pc' = "process"
            /\ UNCHANGED c_result

\* Step 1 of the campaign: maps_service.search_businesses(keyword, location,
\* radius, max_results * 2)
SearchBusinesses ==
    /\ c_pc = "search"
    /\ \/ Searched("no_api_key", <<>>, {})
       \/ \E cached_result \in ProviderListings(c_config) \ {<<>>} :
             Searched("cache_hit", cached_result, {})
       \/ Searched("geocode_failed", <<>>, {"geocoding"})
       \/ \E geocode \in {{}, {"geocoding"}} :
             IF c_max_results * 2 <= 0
             THEN Searched("searched", <<>>, geocode)
             ELSE \/ Searched("provider_error", <<>>, geocode \cup {"places"})
                  \/ \E results \in ProviderListings(c_config) :
                        Searched("searched",
                                 Slice(results, c_max_results * 2),
                                 geocode \cup {"places"})
    /\ UNCHANGED <<c_config, c_max_results, c_processed, c_prospects, c_checks,
                   c_errors>>
    /\ UNCHANGED <<seqVars, dedupVars, validateVars, enrichVars, mapsVars, icoVars, registryVars, checkVars, raceVars, fetchVars>>

\* The turn of the loop with an exception in it abandoning the listings
\* qualified so far
KeepQualifiedOrReset(prospects, out) ==
    IF out.prospect = None THEN prospects
    ELSE IF ~out.score_is_number THEN <<>>
    ELSE IF out.prospect.quality_score > QualityThreshold
    THEN Append(prospects, out.prospect)
    ELSE prospects

\* `prospects` after one turn of the loop: a prospect above the threshold
\* is appended; comparing a quality_score of None with the threshold raises
\* TypeError, which the turn's except answers with `continue`
KeepQualified(prospects, out) ==
    IF out.prospect = None THEN prospects
    ELSE IF ~out.score_is_number THEN prospects
    ELSE IF out.prospect.quality_score > QualityThreshold
    THEN Append(prospects, out.prospect)
    ELSE prospects

\* Step 2 of the campaign, one turn of `for business in businesses` that
\* does not break
ProcessBusiness ==
    /\ c_pc = "process"
    /\ c_processed < Len(c_businesses)
    /\ ~(Len(c_prospects) >= c_max_results)
    /\ \E scrape \in ScrapeOutcomes, ares_data \in RegistryOutcomes,
          dedup_result \in Verdicts, ai_analysis \in AiOutcomes :
          LET business == c_businesses[c_processed + 1]
              out == ProcessSingleBusiness(business, c_config, scrape, ares_data,
                                           dedup_result, ai_analysis)
          IN  /\ c_processed' = c_processed + 1
              /\ c_prospects' = KeepQualified(c_prospects, out)
              /\ c_checks' =
                    IF c_config.enable_deduplication
                    THEN c_checks \cup {[place_id |-> business.place_id,
                                          verdict |-> dedup_result,
                                          dropped |-> out.dropped]}
                    ELSE c_checks
              /\ c_calls' = c_calls \cup out.calls
              /\ c_errors' =
                    IF out.prospect # None /\ ~out.score_is_number
                    THEN c_errors \cup {business.place_id}
                    ELSE c_errors
    /\ UNCHANGED <<c_pc, c_config, c_max_results, c_discovery, c_businesses,
                   c_result>>
    /\ UNCHANGED <<seqVars, dedupVars, validateVars, enrichVars, mapsVars, icoVars, registryVars, checkVars, raceVars, fetchVars>>

\* The loop ends (quota reached or listings exhausted) and step 3 of the
\* campaign, the final deduplication, reassigns `prospects`
FinalDeduplication ==
    /\ c_pc = "process"
    /\ c_processed = Len(c_businesses) \/ Len(c_prospects) >= c_max_results
    /\ c_prospects' =
          IF c_config.enable_deduplication /\ Len(c_prospects) > 1
          THEN DeduplicateProspectList(c_prospects).unique_prospects
          ELSE c_prospects
    /\ c_pc' = "sort"
    /\ UNCHANGED <<c_config, c_max_results, c_discovery, c_businesses,
                   c_processed, c_checks, c_calls, c_errors, c_result>>
    /\ UNCHANGED <<seqVars, dedupVars, validateVars, enrichVars, mapsVars, icoVars, registryVars, checkVars, raceVars, fetchVars>>

\* Step 4 of the campaign, the sort by quality score, and the results
FinishCampaign ==
    /\ c_pc = "sort"
    /\ c_result' = [success |-> <<TRUE>>,
                    error |-> <<>>,
                    prospects |-> Slice(SortByQuality(c_prospects), c_max_results),
                    total_found |-> Len(c_businesses),
                    total_processed |-> c_processed,
                    total_qualified |-> Len(c_prospects)]
    /\ c_pc' = "done"
    /\ UNCHANGED <<c_config, c_max_results, c_discovery, c_businesses,
                   c_processed, c_prospects, c_checks, c_calls, c_errors>>
    /\ UNCHANGED <<seqVars, dedupVars, validateVars, enrichVars, mapsVars, icoVars, registryVars, checkVars, raceVars, fetchVars>>

CampaignNext ==
    \/ ValidateRequest
    \/ StartCampaign
    \/ SearchBusinesses
    \/ ProcessBusiness
    \/ FinalDeduplication
    \/ FinishCampaign

SpecCampaign == CampaignInit /\ [][CampaignNext]_vars

(***************************************************************************)
(* The AI oracle's answer (ai_analysis_service.py)                         *)
(*                                                                         *)
(* The text the model returns is a sequence of tokens: "{" and "}", "x" a  *)
(* word of prose, and "q", "v", "e" the members                            *)
(* "quality_score": 80, "validation_status": "valid" and "error": "..."    *)
(* of a JSON object.  A dict is a record whose absent keys are <<>> and    *)
(* whose present keys hold <<value>>.                                      *)
(***************************************************************************)
\* content.find('{'): the first position of the token, 0 when there is none
Find(content, token) ==
    IF \E k \in 1..Len(content) : content[k] = token
    THEN CHOOSE k \in 1..Len(content) :
            /\ content[k] = token
            /\ \A n \in 1..(k - 1) : content[n] # token
    ELSE 0

\* content.rfind('}'): the last position of the token, 0 when there is none
RFind(content, token) ==
    IF \E k \in 1..Len(content) : content[k] = token
    THEN CHOOSE k \in 1..Len(content) :
            /\ content[k] = token
            /\ \A n \in (k + 1)..Len(content) : content[n] # token
    ELSE 0

\* json.loads accepts the text: an object of members
IsJsonObject(json_content) ==
    /\ Len(json_content) >= 2
    /\ json_content[1] = "{"
    /\ json_content[Len(json_content)] = "}"
    /\ \A k \in 2..(Len(json_content) - 1) : json_content[k] \in {"q", "v", "e"}

\* A dict of the oracle with no key
NoAnalysis ==
    [error |-> None, score |-> None, raw_content |-> None, analysis |-> None,
     format |-> None, quality_score |-> None, validation_status |-> None]

\* json.loads of an object of members
JsonLoads(json_content) ==
    [NoAnalysis EXCEPT
        !.quality_score =
            IF \E k \in 1..Len(json_content) : json_content[k] = "q"
            THEN <<80>> ELSE None,
        !.validation_status =
            IF \E k \in 1..Len(json_content) : json_content[k] = "v"
            THEN <<"valid">> ELSE None,
        !.error =
            IF \E k \in 1..Len(json_content) : json_content[k] = "e"
            THEN <<"refused">> ELSE None]

\* AIAnalysisService._parse_ai_response
ParseAiResponse(content) ==
    LET start_idx == Find(content, "{")
        end_idx == RFind(content, "}")
    IN  IF start_idx # 0 /\ end_idx >= start_idx
        THEN LET json_content == SubSeq(content, start_idx, end_idx)
             IN  IF IsJsonObject(json_content)
                 THEN JsonLoads(json_content)
                 ELSE [NoAnalysis EXCEPT !.error = <<"Invalid JSON response">>,
                                         !.raw_content = <<content>>]
        ELSE [NoAnalysis EXCEPT !.analysis = <<content>>, !.format = <<"text">>]

\* What the oracle does when asked: there is no API key, the request raises,
\* or the model answers with a text
OracleBehaviours ==
    {[kind |-> "unavailable", content |-> <<>>],
     [kind |-> "raises", content |-> <<>>]}
    \cup {[kind |-> "answers", content |-> c] :
            c \in {<<"{", "q", "v", "}">>,
                   <<"x", "{", "q", "}", "x">>,
                   <<"{", "}">>,
                   <<"{", "e", "}">>,
                   <<"{", "q", "x", "}">>,
                   <<"{", "q">>,
                   <<"}", "x", "{">>,
                   <<"x", "x">>,
                   <<>>}}

\* AIAnalysisService.analyze_prospect_quality and generate_prospect_summary:
\* the dict returned under an oracle behaviour
AiAnswer(oracle) ==
    CASE oracle.kind = "unavailable" ->
            [NoAnalysis EXCEPT !.error = <<"AI service not available">>]
      [] oracle.kind = "raises" ->
            [NoAnalysis EXCEPT !.error = <<"exception">>, !.score = <<0>>]
      [] oracle.kind = "answers" -> ParseAiResponse(oracle.content)

(***************************************************************************)
(* Enrichment of an existing prospect                                      *)
(* (lead_generation_service.enrich_existing_prospect)                      *)
(***************************************************************************)
\* dict.get(key, default) on a dict of the model
GetOr(value, default) == IF value = None THEN <<default>> ELSE value

\* What get_company_details answers: it raises before its own try (the
\* cache backend fails), finds nothing ({}), or returns the company, with
\* or without a legal form
RegistryAnswers ==
    {[kind |-> "raises", data |-> None],
     [kind |-> "empty", data |-> None],
     [kind |-> "found",
      data |-> [legal_form |-> <<"s.r.o.">>, registration_date |-> <<"2001">>,
                business_activities |-> <<<<"it">>>>,
                formatted_address |-> <<"aa 1">>,
                key_personnel |-> <<<<"E K">>>>]],
     [kind |-> "found",
      data |-> [legal_form |-> None, registration_date |-> None,
                business_activities |-> None, formatted_address |-> <<"aa 1">>,
                key_personnel |-> None]]}

\* What analyze_website answers: it raises before its own try, the site is
\* not accessible, or the analysis, with or without contact data
WebsiteAnswers ==
    {[kind |-> "raises", accessible |-> FALSE, emails |-> <<>>, phones |-> <<>>,
      title |-> None],
     [kind |-> "returns", accessible |-> FALSE, emails |-> <<>>, phones |-> <<>>,
      title |-> None],
     [kind |-> "returns", accessible |-> TRUE, emails |-> <<"jan@ab.cz">>,
      phones |-> <<"123">>, title |-> <<"Ab">>],
     [kind |-> "returns", accessible |-> TRUE, emails |-> <<>>, phones |-> <<>>,
      title |-> None]}

\* prospect_data.copy() with none of the keys the enrichment adds
Unenriched(prospect_data) ==
    [id |-> prospect_data.id,
     company_name |-> prospect_data.company_name,
     ico |-> prospect_data.ico,
     website |-> prospect_data.website,
     legal_form |-> None, registration_date |-> None,
     business_activities |-> None, formatted_address |-> None,
     management |-> None,
     additional_emails |-> None, additional_phones |-> None,
     website_analysis |-> None,
     ai_analysis |-> None, quality_score |-> None, validation_status |-> None,
     ai_summary |-> None,
     enrichment_log |-> None, enriched_at |-> None, enrichment_error |-> None]

\* Step 1: ARES enrichment if ICO available
EnrichAres(enriched, ares_data) ==
    [enriched EXCEPT
        !.legal_form = GetOr(ares_data.legal_form, ""),
        !.registration_date = GetOr(ares_data.registration_date, ""),
        !.business_activities = GetOr(ares_data.business_activities, <<>>),
        !.formatted_address = GetOr(ares_data.formatted_address, ""),
        !.management = GetOr(ares_data.key_personnel, <<>>)]

\* Step 2: website scraping if website available
EnrichWebsite(enriched, website_data) ==
    [enriched EXCEPT
        !.additional_emails =
            IF website_data.emails # <<>> THEN <<website_data.emails>> ELSE None,
        !.additional_phones =
            IF website_data.phones # <<>> THEN <<website_data.phones>> ELSE None,
        !.website_analysis = <<[title |-> GetOr(website_data.title, "")]>>]

\* Step 3: AI analysis
EnrichAi(enriched, ai_analysis) ==
    [enriched EXCEPT
        !.ai_analysis = <<ai_analysis>>,
        !.quality_score = GetOr(ai_analysis.quality_score, 0),
        !.validation_status = GetOr(ai_analysis.validation_status, "needs_review")]

\* The except branch with the error marker left out
EnrichmentFailedSilently(prospect_data) == Unenriched(prospect_data)

\* The except branch: {**prospect_data, 'enrichment_error': str(e)}
EnrichmentFailed(prospect_data) ==
    [Unenriched(prospect_data) EXCEPT !.enrichment_error = <<"exception">>]

\* LeadGenerationService.enrich_existing_prospect under the answers `world`
\* of the adapters
EnrichExistingProspect(prospect_data, world) ==
    LET ares == prospect_data.ico # <<>>
        scrape == prospect_data.website # <<>>
        raised == \/ ares /\ world.ares.kind = "raises"
                  \/ scrape /\ world.website.kind = "raises"
        step1 == IF ares /\ world.ares.kind = "found"
                 THEN EnrichAres(Unenriched(prospect_data), world.ares.data)
                 ELSE Unenriched(prospect_data)
        log1 == IF ares /\ world.ares.kind = "found" THEN <<"ares_data">> ELSE <<>>
        step2 == IF scrape /\ world.website.accessible
                 THEN EnrichWebsite(step1, world.website)
                 ELSE step1
        log2 == IF scrape /\ world.website.accessible
                THEN Append(log1, "website_scraping") ELSE log1
        ai_analysis == AiAnswer(world.oracle)
        step3 == IF ai_analysis.error = None
                 THEN EnrichAi(step2, ai_analysis) ELSE step2
        log3 == IF ai_analysis.error = None
                THEN Append(log2, "ai_analysis") ELSE log2
        summary == AiAnswer(world.summary)
        step4 == IF Len(log3) > 1 /\ summary.error = None
                 THEN [step3 EXCEPT !.ai_summary = <<summary>>] ELSE step3
        log4 == IF Len(log3) > 1 /\ summary.error = None
                THEN Append(log3, "ai_summary") ELSE log3
    IN  IF raised
        THEN EnrichmentFailed(prospect_data)
        ELSE [step4 EXCEPT !.enrichment_log = <<log4>>, !.enriched_at = <<"now">>]

\* The prospects a caller sends: with or without an ICO and a website
EnrichInputs ==
    [id : {0}, company_name : {<<"Ab">>}, ico : {None, <<"12345679">>},
     website : {None, <<"ab.cz">>}]

\* The answers of the adapters for one enrichment
EnrichWorlds ==
    [ares : RegistryAnswers, website : WebsiteAnswers, oracle : OracleBehaviours,
     summary : {[kind |-> "unavailable", content |-> <<>>],
                [kind |-> "answers", content |-> <<"{", "}">>],
                [kind |-> "answers", content |-> <<"x", "x">>]}]

\* A caller holds a prospect; the adapters will answer as en_world says
EnrichInit ==
    /\ en_prospect \in EnrichInputs
    /\ en_world \in EnrichWorlds
    /\ en_enriched = None
    /\ b_prospects = <<>>
    /\ b_worlds = <<>>
    /\ b_max_concurrent = 0
    /\ b_i = 0
    /\ b_enriched = <<>>
    /\ b_result = None
    /\ m_world = None
    /\ m_cache = None
    /\ m_max_results = 0
    /\ m_returned = None
    /\ m_searches = 0
    /\ vi_ico = <<>>
    /\ vi_result = None
    /\ p_row = None
    /\ p_ares = None
    /\ p_returned = None
    /\ p_calls = 0
    /\ ck_new = None
    /\ ck_existing = <<>>
    /\ ck_oracle = None
    /\ ck_result = None
    /\ r_row = None
    /\ r_mem = <<>>
    /\ r_now = 0
    /\ r_started = 0
    /\ r_writes = 0
    /\ f_world = <<>>
    /\ f_attempt = 0
    /\ f_result = None
    /\ status = "new"
    /\ sequence_position = 0
    /\ next_followup_date = None
    /\ response_received = FALSE
    /\ response_date = None
    /\ converted_to_lead = FALSE
    /\ now = 0
    /\ lastOp = "create"
    /\ advanceCalls = 0
    /\ dd_prospects = <<>>
    /\ dd_result = None
    /\ v_config = None
    /\ v_result = None
    /\ c_pc = "idle"
    /\ c_config = None
    /\ c_max_results = 0
    /\ c_discovery = "none"
    /\ c_businesses = <<>>
    /\ c_processed = 0
    /\ c_prospects = <<>>
    /\ c_checks = {}
    /\ c_calls = {}
    /\ c_errors = {}
    /\ c_result = None

\* lead_generation_service.enrich_existing_prospect(prospect_data)
EnrichProspect ==
    /\ en_enriched = None
    /\ en_enriched' = EnrichExistingProspect(en_prospect, en_world)
    /\ UNCHANGED <<en_prospect, en_world, b_prospects, b_worlds, b_max_concurrent,
                   b_i, b_enriched, b_result>>
    /\ UNCHANGED <<seqVars, dedupVars, validateVars, campVars, mapsVars, icoVars, registryVars, checkVars, raceVars, fetchVars>>

SpecEnrich == EnrichInit /\ [][EnrichProspect]_vars

(***************************************************************************)
(* Bulk enrichment (lead_generation_service.bulk_enrich_prospects)         *)
(***************************************************************************)
\* A world in which every adapter answers with data
AllAnswer ==
    [ares |-> [kind |-> "found",
               data |-> [legal_form |-> <<"s.r.o.">>,
                         registration_date |-> <<"2001">>,
                         business_activities |-> <<<<"it">>>>,
                         formatted_address |-> <<"aa 1">>,
                         key_personnel |-> <<<<"E K">>>>]],
     website |-> [kind |-> "returns", accessible |-> TRUE,
                  emails |-> <<"jan@ab.cz">>, phones |-> <<"123">>,
                  title |-> <<"Ab">>],
     oracle |-> [kind |-> "answers", content |-> <<"{", "q", "v", "}">>],
     summary |-> [kind |-> "unavailable", content |-> <<>>]]

\* The answers of the adapters for one record of a bulk run: all adapters
\* answer, the registry lookup raises, the website analysis raises, or the
\* oracle is not available
BulkWorlds ==
    {AllAnswer,
     [AllAnswer EXCEPT !.ares = [kind |-> "raises", data |-> None]],
     [AllAnswer EXCEPT !.website = [kind |-> "raises", accessible |-> FALSE,
                                    emails |-> <<>>, phones |-> <<>>,
                                    title |-> None]],
     [AllAnswer EXCEPT !.oracle = [kind |-> "unavailable", content |-> <<>>]]}

\* The records of a bulk run carry their position as id
Numbered(prospects) ==
    [k \in 1..Len(prospects) |-> [prospects[k] EXCEPT !.id = k]]

\* The caller passes up to MaxBulk prospects and max_concurrent
BulkInit ==
    /\ b_prospects \in
          {Numbered(l) :
              l \in ListsUpTo({r \in EnrichInputs : (r.ico = None) <=> (r.website = None)},
                              MaxBulk)}
    /\ b_worlds \in UNION {[1..n -> BulkWorlds] : n \in 0..MaxBulk}
    /\ Len(b_worlds) = Len(b_prospects)
    /\ b_max_concurrent \in 1..3
    /\ b_i = 0
    /\ b_enriched = <<>>
    /\ b_result = None
    /\ m_world = None
    /\ m_cache = None
    /\ m_max_results = 0
    /\ m_returned = None
    /\ m_searches = 0
    /\ vi_ico = <<>>
    /\ vi_result = None
    /\ p_row = None
    /\ p_ares = None
    /\ p_returned = None
    /\ p_calls = 0
    /\ ck_new = None
    /\ ck_existing = <<>>
    /\ ck_oracle = None
    /\ ck_result = None
    /\ r_row = None
    /\ r_mem = <<>>
    /\ r_now = 0
    /\ r_started = 0
    /\ r_writes = 0
    /\ f_world = <<>>
    /\ f_attempt = 0
    /\ f_result = None
    /\ en_prospect = None
    /\ en_world = None
    /\ en_enriched = None
    /\ status = "new"
    /\ sequence_position = 0
    /\ next_followup_date = None
    /\ response_received = FALSE
    /\ response_date = None
    /\ converted_to_lead = FALSE
    /\ now = 0
    /\ lastOp = "create"
    /\ advanceCalls = 0
    /\ dd_prospects = <<>>
    /\ dd_result = None
    /\ v_config = None
    /\ v_result = None
    /\ c_pc = "idle"
    /\ c_config = None
    /\ c_max_results = 0
    /\ c_discovery = "none"
    /\ c_businesses = <<>>
    /\ c_processed = 0
    /\ c_prospects = <<>>
    /\ c_checks = {}
    /\ c_calls = {}
    /\ c_errors = {}
    /\ c_result = None

\* One turn of `for i in range(0, len(prospects), max_concurrent)`: the
\* batch prospects[i:i + max_concurrent] is enriched record after record
EnrichBatch ==
    /\ b_result = None
    /\ b_i < Len(b_prospects)
    /\ LET last == Min(b_i + b_max_concurrent, Len(b_prospects))
           batch_results ==
               [k \in 1..(last - b_i) |->
                   EnrichExistingProspect(b_prospects[b_i + k], b_worlds[b_i + k])]
       IN  b_enriched' = b_enriched \o batch_results
    /\ b_i' = b_i + b_max_concurrent
    /\ UNCHANGED <<b_prospects, b_worlds, b_max_concurrent, b_result,
                   en_prospect, en_world, en_enriched>>
    /\ UNCHANGED <<seqVars, dedupVars, validateVars, campVars, mapsVars, icoVars, registryVars, checkVars, raceVars, fetchVars>>

\* The loop is over: return enriched_prospects
ReturnBulk ==
    /\ b_result = None
    /\ b_i >= Len(b_prospects)
    /\ b_result' = b_enriched
    /\ UNCHANGED <<b_prospects, b_worlds, b_max_concurrent, b_i, b_enriched,
                   en_prospect, en_world, en_enriched>>
    /\ UNCHANGED <<seqVars, dedupVars, validateVars, campVars, mapsVars, icoVars, registryVars, checkVars, raceVars, fetchVars>>

BulkNext ==
    \/ EnrichBatch
    \/ ReturnBulk

SpecBulk == BulkInit /\ [][BulkNext]_vars

(***************************************************************************)
(* Discovery and its cache (maps_service.search_businesses)                *)
(*                                                                         *)
(* The calls share keyword, location, radius and business_type, hence one  *)
(* cache key.  The provider holds a list of places and answers a text      *)
(* search page by page.  A cache entry is <<list>>, None when there is     *)
(* none.                                                                   *)
(***************************************************************************)
\* The results of one page of the text search
Page(places, page) ==
    SubSeq(places, (page - 1) * PageSize + 1, Min(page * PageSize, Len(places)))

\* The answer carries a next_page_token
HasNextPage(places, page) == page * PageSize < Len(places)

\* `while len(businesses) < max_results`: one request per turn, the places
\* of the page appended up to max_results, until there is no next page
RECURSIVE FetchPages(_, _, _, _)
FetchPages(places, max_results, businesses, page) ==
    IF ~(Len(businesses) < max_results) THEN businesses
    ELSE LET results == Page(places, page)
             taken == businesses \o Slice(results, max_results - Len(businesses))
         IN  IF HasNextPage(places, page)
             THEN FetchPages(places, max_results, taken, page + 1)
             ELSE taken

\* search_businesses: what it returns and the cache entry it leaves
SearchBusinessesCall(world, cached_result, max_results) ==
    IF ~world.api_key
    THEN [returned |-> <<>>, cache |-> cached_result]
    ELSE IF cached_result # None /\ cached_result[1] # <<>>
    THEN [returned |-> cached_result[1], cache |-> cached_result]
    ELSE IF ~world.geocodes
    THEN [returned |-> <<>>, cache |-> cached_result]
    ELSE LET businesses == FetchPages(world.places, max_results, <<>>, 1)
         IN  [returned |-> businesses, cache |-> <<businesses>>]

MapsInit ==
    /\ status = "new"
    /\ sequence_position = 0
    /\ next_followup_date = None
    /\ response_received = FALSE
    /\ response_date = None
    /\ converted_to_lead = FALSE
    /\ now = 0
    /\ lastOp = "create"
    /\ advanceCalls = 0
    /\ dd_prospects = <<>>
    /\ dd_result = None
    /\ v_config = None
    /\ v_result = None
    /\ c_pc = "idle"
    /\ c_config = None
    /\ c_max_results = 0
    /\ c_discovery = "none"
    /\ c_businesses = <<>>
    /\ c_processed = 0
    /\ c_prospects = <<>>
    /\ c_checks = {}
    /\ c_calls = {}
    /\ c_errors = {}
    /\ c_result = None
    /\ en_prospect = None
    /\ en_world = None
    /\ en_enriched = None
    /\ b_prospects = <<>>
    /\ b_worlds = <<>>
    /\ b_max_concurrent = 0
    /\ b_i = 0
    /\ b_enriched = <<>>
    /\ b_result = None
    /\ m_world \in [api_key : BOOLEAN, geocodes : BOOLEAN,
                    places : {[k \in 1..n |-> k] : n \in 0..MaxPlaces}]
    /\ m_cache = None
    /\ m_max_results = 0
    /\ m_returned = None
    /\ m_searches = 0
    /\ vi_ico = <<>>
    /\ vi_result = None
    /\ p_row = None
    /\ p_ares = None
    /\ p_returned = None
    /\ p_calls = 0
    /\ ck_new = None
    /\ ck_existing = <<>>
    /\ ck_oracle = None
    /\ ck_result = None
    /\ r_row = None
    /\ r_mem = <<>>
    /\ r_now = 0
    /\ r_started = 0
    /\ r_writes = 0
    /\ f_world = <<>>
    /\ f_attempt = 0
    /\ f_result = None

\* A call of search_businesses with some max_results
Search ==
    /\ m_searches < MaxSearches
    /\ \E max_results \in 0..MaxAsk :
          LET call == SearchBusinessesCall(m_world, m_cache, max_results)
          IN  /\ m_max_results' = max_results
              /\ m_returned' = <<call.returned>>
              /\ m_cache' = call.cache
    /\ m_searches' = m_searches + 1
    /\ UNCHANGED m_world
    /\ UNCHANGED <<seqVars, dedupVars, validateVars, campVars, enrichVars, icoVars, registryVars, checkVars, raceVars, fetchVars>>

\* The cache entry reaches its timeout of one hour
ExpireCache ==
    /\ m_cache # None
    /\ m_cache' = None
    /\ UNCHANGED <<m_world, m_max_results, m_returned, m_searches>>
    /\ UNCHANGED <<seqVars, dedupVars, validateVars, campVars, enrichVars, icoVars, registryVars, checkVars, raceVars, fetchVars>>

MapsNext ==
    \/ Search
    \/ ExpireCache

SpecMaps == MapsInit /\ [][MapsNext]_vars

(***************************************************************************)
(* The registry identifier (czech_registry.validate_ico)                   *)
(*                                                                         *)
(* A string is the sequence of its characters; "-" and " " are characters  *)
(* that are not digits.                                                    *)
(***************************************************************************)
Digits == <<"0", "1", "2", "3", "4", "5", "6", "7", "8", "9">>

\* str.isdigit of one character
IsDigit(c) == \E d \in 1..Len(Digits) : Digits[d] = c

\* int() of one digit
DigitValue(c) == (CHOOSE d \in 1..Len(Digits) : Digits[d] = c) - 1

\* str.zfill(width)
RECURSIVE ZFill(_, _)
ZFill(str, width) ==
    IF Len(str) >= width THEN str ELSE ZFill(<<"0">> \o str, width)

\* An ICO has 8 digits
IcoLength == 8

\* checksum % 11
IcoModulus == 11

\* weights = [8, 7, 6, 5, 4, 3, 2]
Weights == <<8, 7, 6, 5, 4, 3, 2>>

\* sum(int(ico[i]) * weights[i] for i in range(7)), up to position n
RECURSIVE Checksum(_, _)
Checksum(ico, n) ==
    IF n = 0 THEN 0 ELSE Checksum(ico, n - 1) + DigitValue(ico[n]) * Weights[n]

\* The check digit of the first seven digits
ExpectedCheckDigit(ico) ==
    LET remainder == Checksum(ico, Len(Weights)) % IcoModulus
    IN  IF remainder < 2 THEN remainder ELSE IcoModulus - remainder

\* CzechRegistryService.validate_ico
ValidateIco(ico) ==
    IF ico = <<>> THEN FALSE
    ELSE LET ico_clean == SelectSeq(ico, IsDigit)
         IN  IF ico_clean = <<>> THEN FALSE
             ELSE LET padded == ZFill(ico_clean, IcoLength)
                  IN  IF Len(padded) # IcoLength THEN FALSE
                      ELSE DigitValue(padded[IcoLength]) = ExpectedCheckDigit(padded)

\* All strings of up to n characters of the alphabet
StringsUpTo(alphabet, n) == UNION {[1..k -> alphabet] : k \in 0..n}

\* The identifiers a caller passes: every short string of a few digits and
\* the dash, the seven digits 1234567 followed by each check digit, as they
\* are, with a separator in them, and with one digit more in front or behind
IcoInputs ==
    StringsUpTo({"0", "1", "2", "7", "9", "-"}, MaxIcoShort)
    \cup {<<"1", "2", "3", "4", "5", "6", "7">> \o <<Digits[d]>> : d \in 1..Len(Digits)}
    \cup {<<"1", "2", "3", "4", "5", "6", "7", "-">> \o <<Digits[d]>> : d \in 1..Len(Digits)}
    \cup {<<"1", "2", "3", " ", "4", "5", "6", " ", "7", "9">>,
          <<"0", "1", "2", "3", "4", "5", "6", "7", "9">>,
          <<"1", "2", "3", "4", "5", "6", "7", "9", "0">>,
          <<"0", "0", "0", "0", "0", "0", "2", "7">>,
          <<"0", "0", "0", "0", "0", "0", "0", "0">>}

IcoInit ==
    /\ status = "new"
    /\ sequence_position = 0
    /\ next_followup_date = None
    /\ response_received = FALSE
    /\ response_date = None
    /\ converted_to_lead = FALSE
    /\ now = 0
    /\ lastOp = "create"
    /\ advanceCalls = 0
    /\ dd_prospects = <<>>
    /\ dd_result = None
    /\ v_config = None
    /\ v_result = None
    /\ c_pc = "idle"
    /\ c_config = None
    /\ c_max_results = 0
    /\ c_discovery = "none"
    /\ c_businesses = <<>>
    /\ c_processed = 0
    /\ c_prospects = <<>>
    /\ c_checks = {}
    /\ c_calls = {}
    /\ c_errors = {}
    /\ c_result = None
    /\ en_prospect = None
    /\ en_world = None
    /\ en_enriched = None
    /\ b_prospects = <<>>
    /\ b_worlds = <<>>
    /\ b_max_concurrent = 0
    /\ b_i = 0
    /\ b_enriched = <<>>
    /\ b_result = None
    /\ m_world = None
    /\ m_cache = None
    /\ m_max_results = 0
    /\ m_returned = None
    /\ m_searches = 0
    /\ vi_ico \in IcoInputs
    /\ vi_result = None
    /\ p_row = None
    /\ p_ares = None
    /\ p_returned = None
    /\ p_calls = 0
    /\ ck_new = None
    /\ ck_existing = <<>>
    /\ ck_oracle = None
    /\ ck_result = None
    /\ r_row = None
    /\ r_mem = <<>>
    /\ r_now = 0
    /\ r_started = 0
    /\ r_writes = 0
    /\ f_world = <<>>
    /\ f_attempt = 0
    /\ f_result = None

\* A call of validate_ico
ValidateIcoCall ==
    /\ vi_result = None
    /\ vi_result' = <<ValidateIco(vi_ico)>>
    /\ UNCHANGED vi_ico
    /\ UNCHANGED <<seqVars, dedupVars, validateVars, campVars, enrichVars, mapsVars, registryVars, checkVars, raceVars, fetchVars>>

SpecIco == IcoInit /\ [][ValidateIcoCall]_vars

(***************************************************************************)
(* Registry enrichment of a prospect                                       *)
(* (models.Prospect.enrich_from_ico,                                       *)
(*  czech_registry.fetch_company_data, enrich_prospect_data)               *)
(*                                                                         *)
(* A str field of the row is a string, "" when blank; ico is the sequence  *)
(* of its characters.  A dict is a record whose absent keys are <<>> and   *)
(* whose present keys hold <<value>>.                                      *)
(***************************************************************************)
ValidIco == <<"1", "2", "3", "4", "5", "6", "7", "9">>

\* What the registry answers for an identifier: nothing (not found, request
\* failed), or a company record in which every key but ico may be missing;
\* _parse_ares_v3_response never yields employee_count_range, and yields
\* legal_form together with legal_form_code
AresResponses ==
    {None} \cup [company_name : {None, <<"Ab a.s.">>},
                 address_city : {None, <<"Brno">>},
                 legal_form_code : {None, <<"112">>},
                 business_activities : {None, <<<<"6201">>>>}]

\* legal_forms.get(code, ...)
LegalFormName(code) == "Spolecnost s rucenim omezenym"

\* fetch_company_data: an identifier that fails validate_ico is not looked up
FetchCompanyData(ico, response) ==
    IF ~ValidateIco(ico) THEN None ELSE response

\* enrich_prospect_data: prospect_data as it is when there is no ico or no
\* registry data, else the copy with the registry's values
EnrichProspectData(prospect_data, ares_data) ==
    LET unenriched ==
            [ico_enriched |-> FALSE,
             company_name |-> prospect_data.company_name,
             address_city |-> prospect_data.address_city,
             legal_form |-> None, legal_form_code |-> None,
             employee_count_range |-> None, business_activities |-> None]
    IN  IF prospect_data.ico = <<>> \/ ares_data = None THEN unenriched
        ELSE [unenriched EXCEPT
                 !.ico_enriched = TRUE,
                 !.company_name =
                     IF ares_data.company_name # None
                     THEN ares_data.company_name[1] ELSE @,
                 !.address_city =
                     IF ares_data.address_city # None
                     THEN ares_data.address_city[1] ELSE @,
                 !.legal_form =
                     IF ares_data.legal_form_code # None
                     THEN <<LegalFormName(ares_data.legal_form_code[1])>> ELSE None,
                 !.legal_form_code = ares_data.legal_form_code,
                 !.business_activities = ares_data.business_activities]

\* The enrichment marked without its time
MarkEnrichedWithoutTime(row, at) == [row EXCEPT !.ico_enriched = TRUE]

\* "Mark as enriched"
MarkEnriched(row, at) ==
    [row EXCEPT !.ico_enriched = TRUE, !.ico_enriched_at = <<at>>]

\* dict.get(key, default) of a key that holds <<value>> or is absent
GetDefault(value, default) == IF value = None THEN default ELSE value[1]

\* Prospect.enrich_from_ico at time `at` with the registry answering
\* `response`: the row it leaves and the bool it returns
EnrichFromIco(row, response, at) ==
    IF row.ico = <<>> THEN [row |-> row, returned |-> FALSE]
    ELSE LET prospect_data == [ico |-> row.ico,
                               company_name |-> row.company_name,
                               address_city |-> row.address_city]
             enriched_data ==
                 EnrichProspectData(prospect_data,
                                    FetchCompanyData(row.ico, response))
         IN  IF ~enriched_data.ico_enriched
             THEN [row |-> row, returned |-> FALSE]
             ELSE [row |->
                      MarkEnriched(
                          [row EXCEPT
                              !.company_name =
                                  IF enriched_data.company_name # ""
                                  THEN enriched_data.company_name ELSE @,
                              !.address_city =
                                  IF enriched_data.address_city # ""
                                  THEN enriched_data.address_city ELSE @,
                              !.legal_form =
                                  GetDefault(enriched_data.legal_form, ""),
                              !.legal_form_code =
                                  GetDefault(enriched_data.legal_form_code, ""),
                              !.employee_count_range =
                                  GetDefault(enriched_data.employee_count_range, ""),
                              !.business_activities =
                                  GetDefault(enriched_data.business_activities, <<>>)],
                          at),
                   returned |-> TRUE]

RegistryInit ==
    /\ status = "new"
    /\ sequence_position = 0
    /\ next_followup_date = None
    /\ response_received = FALSE
    /\ response_date = None
    /\ converted_to_lead = FALSE
    /\ now = 0
    /\ lastOp = "create"
    /\ advanceCalls = 0
    /\ dd_prospects = <<>>
    /\ dd_result = None
    /\ v_config = None
    /\ v_result = None
    /\ c_pc = "idle"
    /\ c_config = None
    /\ c_max_results = 0
    /\ c_discovery = "none"
    /\ c_businesses = <<>>
    /\ c_processed = 0
    /\ c_prospects = <<>>
    /\ c_checks = {}
    /\ c_calls = {}
    /\ c_errors = {}
    /\ c_result = None
    /\ en_prospect = None
    /\ en_world = None
    /\ en_enriched = None
    /\ b_prospects = <<>>
    /\ b_worlds = <<>>
    /\ b_max_concurrent = 0
    /\ b_i = 0
    /\ b_enriched = <<>>
    /\ b_result = None
    /\ m_world = None
    /\ m_cache = None
    /\ m_max_results = 0
    /\ m_returned = None
    /\ m_searches = 0
    /\ vi_ico = <<>>
    /\ vi_result = None
    /\ p_row \in [ico : {<<>>, ValidIco, <<"1", "2", "3", "4", "5", "6", "7", "0">>,
                          <<"2", "7">>},
                  company_name : {"Ab"},
                  address_city : {"", "Praha"},
                  legal_form : {"", "s.r.o."},
                  legal_form_code : {""},
                  employee_count_range : {"", "10-49"},
                  business_activities : {<<>>, <<"5610">>},
                  ico_enriched : {FALSE},
                  ico_enriched_at : {None}]
    /\ p_ares = None
    /\ p_returned = None
    /\ p_calls = 0
    /\ ck_new = None
    /\ ck_existing = <<>>
    /\ ck_oracle = None
    /\ ck_result = None
    /\ r_row = None
    /\ r_mem = <<>>
    /\ r_now = 0
    /\ r_started = 0
    /\ r_writes = 0
    /\ f_world = <<>>
    /\ f_attempt = 0
    /\ f_result = None

\* A call of enrich_from_ico
CallEnrichFromIco ==
    /\ p_calls < MaxEnrichCalls
    /\ \E response \in AresResponses :
          LET call == EnrichFromIco(p_row, response, p_calls + 1)
          IN  /\ p_row' = call.row
              /\ p_returned' = <<call.returned>>
              /\ p_ares' = FetchCompanyData(p_row.ico, response)
    /\ p_calls' = p_calls + 1
    /\ UNCHANGED <<seqVars, dedupVars, validateVars, campVars, enrichVars, mapsVars, icoVars, checkVars, raceVars, fetchVars>>

SpecRegistry == RegistryInit /\ [][CallEnrichFromIco]_vars

(***************************************************************************)
(* The arithmetic of the combined confidence                               *)
(* (deduplication_service._combine_detection_results)                      *)
(*                                                                         *)
(* The weights 0.6 and 0.4 are binary doubles, and each product and the    *)
(* sum are rounded to the nearest double, ties to even.  A double of this  *)
(* computation is [q, d]: the value q / 10 + d * w, where w = 2^-55 / 5.   *)
(* In units of w the value is q * 2^54 + d, and the doubles of the binade  *)
(* [2^k, 2^(k+1)) are the multiples of 5 * 2^(k+3); 2^54 leaves 4 modulo 5 *)
(* and 0 modulo 2^(k+3), which turns the rounding into arithmetic on d.    *)
(***************************************************************************)
\* fuzzy_weight = 0.6: the double next to 0.6 is 0.6 - 4w
FuzzyWeight == [q |-> 6, d |-> -4]

\* ai_weight = 0.4: the double next to 0.4 is 0.4 + 4w
AiWeight == [q |-> 4, d |-> 4]

Negate(x) == [q |-> -x.q, d |-> -x.d]

IsNegative(x) == x.q < 0 \/ (x.q = 0 /\ x.d < 0)

\* m = k + 3 for a positive value of the binade [2^k, 2^(k+1))
BinadeOf(x) ==
    LET m == CHOOSE n \in 0..MaxBinade : 5 * 2^n <= 4 * x.q /\ 4 * x.q < 10 * 2^n
    IN  IF 5 * 2^m = 4 * x.q /\ x.d < 0 THEN m - 1 ELSE m

\* The double nearest to a positive value, ties to the even mantissa
RoundPositive(x) ==
    LET m == BinadeOf(x)
        spacing == 5 * 2^m
        Distance(a, b) == IF a < b THEN b - a ELSE a - b
        doubles == {e \in (x.d - spacing)..(x.d + spacing) :
                       /\ e % (2^m) = 0
                       /\ (4 * x.q + e) % 5 = 0}
        nearest == {e \in doubles :
                       \A o \in doubles : Distance(e, x.d) <= Distance(o, x.d)}
    IN  [q |-> x.q,
         d |-> IF Cardinality(nearest) = 1 THEN CHOOSE e \in nearest : TRUE
               ELSE CHOOSE e \in nearest : e % (2^(m + 1)) = 0]

\* Round to nearest double; a value with q = 0 is a difference of doubles
\* of one binade and is a double itself
RoundToDouble(x) ==
    IF x.q = 0 THEN x
    ELSE IF IsNegative(x) THEN Negate(RoundPositive(Negate(x)))
    ELSE RoundPositive(x)

\* int * float
FloatTimes(n, weight) == RoundToDouble([q |-> n * weight.q, d |-> n * weight.d])

\* float + float
FloatPlus(x, y) == RoundToDouble([q |-> x.q + y.q, d |-> x.d + y.d])

\* float > int
FloatAbove(x, n) == x.q > 10 * n \/ (x.q = 10 * n /\ x.d > 0)

\* int(float): truncation towards zero
FloatToInt(x) ==
    LET TruncatePositive(y) ==
            IF y.q % 10 = 0 /\ y.d < 0 /\ y.q > 0 THEN (y.q \div 10) - 1
            ELSE y.q \div 10
    IN  IF IsNegative(x) THEN -TruncatePositive(Negate(x)) ELSE TruncatePositive(x)

\* combined_confidence of _combine_detection_results
CombinedConfidence(fuzzy_confidence, ai_confidence) ==
    FloatPlus(FloatTimes(fuzzy_confidence, FuzzyWeight),
              FloatTimes(ai_confidence, AiWeight))

(***************************************************************************)
(* The duplicate check of one prospect against the existing ones           *)
(* (deduplication_service.check_for_duplicates)                            *)
(***************************************************************************)
\* int(highest_similarity * 100). The similarity is a float: it is the floor
\* of the exact product unless that is a whole number, and the one whole
\* number the records of the model produce above 0.5 and below 1 is 90, for
\* the similarity 1.35 / 1.5 that the floats compute as 0.8999999999999999
FuzzyConfidence(sim) == IF sim * 10 = 9 * One THEN 89 ELSE (sim * 100) \div One

\* best_matches.sort(key=similarity, reverse=True): a stable sort
SortBySimilarity(matches) ==
    LET position == [i \in 1..Len(matches) |->
            Cardinality({j \in 1..Len(matches) :
                            \/ matches[j].similarity > matches[i].similarity
                            \/ /\ matches[j].similarity = matches[i].similarity
                               /\ j < i}) + 1]
    IN  [k \in 1..Len(matches) |->
            matches[CHOOSE i \in 1..Len(matches) : position[i] = k]]

\* DeduplicationService._fuzzy_match_prospects
FuzzyMatchProspects(new_prospect, existing_prospects) ==
    LET scored == [k \in 1..Len(existing_prospects) |->
                      [prospect |-> existing_prospects[k],
                       similarity |-> CalculateSimilarity(new_prospect,
                                                          existing_prospects[k])]]
        \* similarity > 0.5, "only consider reasonable matches"
        best_matches ==
            SortBySimilarity(SelectSeq(scored, LAMBDA x : x.similarity * 2 > One))
    IN  IF best_matches # <<>>
        THEN [is_duplicate |-> AboveThreshold(best_matches[1].similarity),
              confidence |-> FuzzyConfidence(best_matches[1].similarity),
              duplicates |-> Slice(best_matches, 3),
              method |-> "fuzzy_matching"]
        ELSE [is_duplicate |-> FALSE, confidence |-> 0, duplicates |-> <<>>,
              method |-> "fuzzy_matching"]

\* What the duplicate oracle does when asked: there is no API key, the
\* request raises, the model answers prose, or it answers a JSON object with
\* is_duplicate and a confidence that is a number or something else
DuplicateOracles ==
    {[kind |-> "unavailable", is_duplicate |-> FALSE, confidence |-> IntVal(0)],
     [kind |-> "raises", is_duplicate |-> FALSE, confidence |-> IntVal(0)],
     [kind |-> "prose", is_duplicate |-> FALSE, confidence |-> IntVal(0)]}
    \cup [kind : {"answers"}, is_duplicate : BOOLEAN,
          confidence : {IntVal(n) : n \in {-100, 0, 1, 60, 71, 100, 150}}
                       \cup {NotInt}]

\* DeduplicationService._ai_duplicate_check with
\* AIAnalysisService.detect_duplicates: an oracle that is unavailable, that
\* raises or that answers prose yields is_duplicate False and confidence 0
AiDuplicateCheck(potential_duplicates, oracle) ==
    IF potential_duplicates = <<>>
    THEN [is_duplicate |-> FALSE, confidence |-> IntVal(0), method |-> "ai_analysis"]
    ELSE [is_duplicate |-> oracle.is_duplicate, confidence |-> oracle.confidence,
          method |-> "ai_analysis"]

\* DeduplicationService._combine_detection_results: a confidence of the
\* oracle that is not a number makes the product raise TypeError, and the
\* except returns fuzzy_results
CombineDetectionResults(fuzzy_results, ai_results) ==
    IF ai_results.confidence.t # "int" THEN fuzzy_results
    ELSE LET combined_confidence ==
                 CombinedConfidence(fuzzy_results.confidence,
                                    ai_results.confidence.v)
         IN  [is_duplicate |->
                 \/ fuzzy_results.is_duplicate /\ fuzzy_results.confidence > 80
                 \/ ai_results.is_duplicate /\ ai_results.confidence.v > 70
                 \/ FloatAbove(combined_confidence, 75),
              confidence |-> FloatToInt(combined_confidence),
              duplicates |-> fuzzy_results.duplicates,
              method |-> "combined_fuzzy_ai"]

\* check_for_duplicates escalating every fuzzy confidence above 50
CheckForDuplicatesAlwaysEscalating(new_prospect, existing_prospects, oracle) ==
    IF existing_prospects = <<>>
    THEN [verdict |-> [is_duplicate |-> FALSE, confidence |-> 0,
                       duplicates |-> <<>>, method |-> "no_existing_data"],
          consulted |-> FALSE]
    ELSE LET fuzzy_results == FuzzyMatchProspects(new_prospect, existing_prospects)
         IN  IF fuzzy_results.confidence > 50
             THEN [verdict |->
                      CombineDetectionResults(
                          fuzzy_results,
                          AiDuplicateCheck(fuzzy_results.duplicates, oracle)),
                   consulted |-> TRUE]
             ELSE [verdict |-> fuzzy_results, consulted |-> FALSE]

\* DeduplicationService.check_for_duplicates: the verdict, and whether
\* detect_duplicates was called
CheckForDuplicates(new_prospect, existing_prospects, oracle) ==
    IF existing_prospects = <<>>
    THEN [verdict |-> [is_duplicate |-> FALSE, confidence |-> 0,
                       duplicates |-> <<>>, method |-> "no_existing_data"],
          consulted |-> FALSE]
    ELSE LET fuzzy_results == FuzzyMatchProspects(new_prospect, existing_prospects)
         IN  IF fuzzy_results.confidence > 90
             THEN [verdict |-> fuzzy_results, consulted |-> FALSE]
             ELSE IF fuzzy_results.confidence > 50
             THEN [verdict |->
                      CombineDetectionResults(
                          fuzzy_results,
                          AiDuplicateCheck(fuzzy_results.duplicates, oracle)),
                   consulted |-> TRUE]
             ELSE [verdict |-> fuzzy_results, consulted |-> FALSE]

\* The new prospect is the scraped record A with one of the field sets, the
\* existing prospects are at most MaxExisting records, and the oracle behaves
\* in one of the ways of DuplicateOracles
CheckInit ==
    /\ status = "new"
    /\ sequence_position = 0
    /\ next_followup_date = None
    /\ response_received = FALSE
    /\ response_date = None
    /\ converted_to_lead = FALSE
    /\ now = 0
    /\ lastOp = "create"
    /\ advanceCalls = 0
    /\ dd_prospects = <<>>
    /\ dd_result = None
    /\ v_config = None
    /\ v_result = None
    /\ c_pc = "idle"
    /\ c_config = None
    /\ c_max_results = 0
    /\ c_discovery = "none"
    /\ c_businesses = <<>>
    /\ c_processed = 0
    /\ c_prospects = <<>>
    /\ c_checks = {}
    /\ c_calls = {}
    /\ c_errors = {}
    /\ c_result = None
    /\ en_prospect = None
    /\ en_world = None
    /\ en_enriched = None
    /\ b_prospects = <<>>
    /\ b_worlds = <<>>
    /\ b_max_concurrent = 0
    /\ b_i = 0
    /\ b_enriched = <<>>
    /\ b_result = None
    /\ m_world = None
    /\ m_cache = None
    /\ m_max_results = 0
    /\ m_returned = None
    /\ m_searches = 0
    /\ vi_ico = <<>>
    /\ vi_result = None
    /\ p_row = None
    /\ p_ares = None
    /\ p_returned = None
    /\ p_calls = 0
    /\ ck_new \in {Populate(BaseRecordA, m) : m \in FieldMasks}
    /\ ck_existing \in ListsUpTo(DedupPool, MaxExisting)
    /\ ck_oracle \in DuplicateOracles
    /\ ck_result = None
    /\ r_row = None
    /\ r_mem = <<>>
    /\ r_now = 0
    /\ r_started = 0
    /\ r_writes = 0
    /\ f_world = <<>>
    /\ f_attempt = 0
    /\ f_result = None

\* A call of check_for_duplicates
CheckDuplicates ==
    /\ ck_result = None
    /\ ck_result' = CheckForDuplicates(ck_new, ck_existing, ck_oracle)
    /\ UNCHANGED <<ck_new, ck_existing, ck_oracle>>
    /\ UNCHANGED <<seqVars, dedupVars, validateVars, campVars, enrichVars, mapsVars, icoVars, registryVars, raceVars, fetchVars>>

SpecCheck == CheckInit /\ [][CheckDuplicates]_vars

(***************************************************************************)
(* Fetching a page (scraping_service.WebScrapingService._fetch_page)       *)
(***************************************************************************)
\* self.max_retries
MaxRetries == 3

\* One pass of the loop that never stops on a response
FetchAttemptRetryingAll(outcome, attempt) ==
    IF outcome = "html" THEN <<"soup">>
    ELSE IF outcome = "other_exception" THEN <<"raised">>
    ELSE IF attempt < MaxRetries - 1 THEN None
    ELSE <<"none">>

\* One pass of the loop, attempt = 0, 1, 2: what the call returns or raises,
\* None when the loop goes on.  session.get and raise_for_status raise a
\* RequestException for a network failure, a timeout and an error status;
\* an exception of another class is not caught here
FetchAttempt(outcome, attempt) ==
    IF outcome = "html" THEN <<"soup">>
    ELSE IF outcome = "non_html" THEN <<"none">>
    ELSE IF outcome = "other_exception" THEN <<"raised">>
    ELSE IF attempt < MaxRetries - 1 THEN None
    ELSE <<"none">>

\* A call of _fetch_page against a site that answers each attempt in one of
\* the four ways
FetchInit ==
    /\ status = "new"
    /\ sequence_position = 0
    /\ next_followup_date = None
    /\ response_received = FALSE
    /\ response_date = None
    /\ converted_to_lead = FALSE
    /\ now = 0
    /\ lastOp = "create"
    /\ advanceCalls = 0
    /\ dd_prospects = <<>>
    /\ dd_result = None
    /\ v_config = None
    /\ v_result = None
    /\ c_pc = "idle"
    /\ c_config = None
    /\ c_max_results = 0
    /\ c_discovery = "none"
    /\ c_businesses = <<>>
    /\ c_processed = 0
    /\ c_prospects = <<>>
    /\ c_checks = {}
    /\ c_calls = {}
    /\ c_errors = {}
    /\ c_result = None
    /\ en_prospect = None
    /\ en_world = None
    /\ en_enriched = None
    /\ b_prospects = <<>>
    /\ b_worlds = <<>>
    /\ b_max_concurrent = 0
    /\ b_i = 0
    /\ b_enriched = <<>>
    /\ b_result = None
    /\ m_world = None
    /\ m_cache = None
    /\ m_max_results = 0
    /\ m_returned = None
    /\ m_searches = 0
    /\ vi_ico = <<>>
    /\ vi_result = None
    /\ p_row = None
    /\ p_ares = None
    /\ p_returned = None
    /\ p_calls = 0
    /\ ck_new = None
    /\ ck_existing = <<>>
    /\ ck_oracle = None
    /\ ck_result = None
    /\ r_row = None
    /\ r_mem = <<>>
    /\ r_now = 0
    /\ r_started = 0
    /\ r_writes = 0
    /\ f_world \in [1..MaxRetries ->
                      {"html", "non_html", "request_exception", "other_exception"}]
    /\ f_attempt = 0
    /\ f_result = None

\* response = self.session.get(url, timeout=self.timeout) and what follows
\* it in the loop body
FetchPage ==
    /\ f_result = None
    /\ f_attempt < MaxRetries
    /\ f_result' = FetchAttempt(f_world[f_attempt + 1], f_attempt)
    /\ f_attempt' = f_attempt + 1
    /\ UNCHANGED f_world
    /\ UNCHANGED <<seqVars, dedupVars, validateVars, campVars, enrichVars, mapsVars, icoVars, registryVars, checkVars, raceVars>>

\* Every attempt ends: the request has a timeout and the backoff is a
\* bounded sleep
SpecFetch == FetchInit /\ [][FetchPage]_vars /\ WF_vars(FetchPage)

(***************************************************************************)
(* Claims about the outreach sequence (checked under SpecProspect)         *)
(***************************************************************************)
TerminalStates == {"responded", "converted", "dead", "disqualified"}

SequenceStatuses == {"new", "sent", "follow_up_1", "follow_up_2", "follow_up_3"}

\* Order of the sequence statuses along the sequence
SequenceRank(st) ==
    CASE st = "new" -> 0
      [] st = "sent" -> 1
      [] st = "follow_up_1" -> 2
      [] st = "follow_up_2" -> 3
      [] st = "follow_up_3" -> 4

\* C1: from position 0 the k-th advance_sequence call (k = 1, 2, 3) leaves
\* position k with status sent, follow_up_1, follow_up_2 and
\* next_followup_date = now + 3 days; the 4th call leaves position 4,
\* status dead and no next_followup_date.
C1_AdvanceFromZero ==
    lastOp = "advance_sequence" =>
        /\ advanceCalls = 1 =>
              /\ sequence_position = 1
              /\ status = "sent"
              /\ next_followup_date = <<now + 3>>
        /\ advanceCalls = 2 =>
              /\ sequence_position = 2
              /\ status = "follow_up_1"
              /\ next_followup_date = <<now + 3>>
        /\ advanceCalls = 3 =>
              /\ sequence_position = 3
              /\ status = "follow_up_2"
              /\ next_followup_date = <<now + 3>>
        /\ advanceCalls = 4 =>
              /\ sequence_position = 4
              /\ status = "dead"
              /\ next_followup_date = None

\* C1 witness: the fourth call has just run and ended the sequence
C1_Witness ==
    /\ lastOp = "advance_sequence"
    /\ advanceCalls = 4
    /\ sequence_position = 4
    /\ status = "dead"
    /\ now > 0

\* C2: once mark_as_responded has been called (response_received is set by
\* it and never reset), the status is responded, next_followup_date is
\* empty and should_send_followup is false in every later state.
C2_RespondedIsTerminal ==
    response_received =>
        /\ status = "responded"
        /\ next_followup_date = None
        /\ ~ShouldSendFollowup

C4_Monotonic ==
    [][ /\ sequence_position' >= sequence_position
        /\ ~(status \in {"responded", "converted", "dead"}
             /\ status' \in SequenceStatuses)
        /\ (status \in SequenceStatuses /\ status' \in SequenceStatuses
              => SequenceRank(status') >= SequenceRank(status))
      ]_vars

(***************************************************************************)
(* Claims about deduplicate_prospect_list (checked under SpecDedup)        *)
(***************************************************************************)
\* The pairs of positions of l holding equal records
ExactPairs(l) ==
    {pr \in (1..Len(l)) \X (1..Len(l)) : pr[1] < pr[2] /\ l[pr[1]] = l[pr[2]]}

\* The pairs of positions of l whose similarity is above the threshold
SimilarPairs(l) ==
    {pr \in (1..Len(l)) \X (1..Len(l)) :
        pr[1] < pr[2] /\ AboveThreshold(CalculateSimilarity(l[pr[1]], l[pr[2]]))}

\* C10: on a list in which exactly one pair of records is an exact duplicate
\* (whichever fields the two records populate) and no other pair exceeds
\* the threshold, deduplicate_prospect_list returns
\* unique_count = original_count - 1 and exactly one group, of size 2.
C10_OneExactPairCollapses ==
    (/\ dd_result # None
     /\ Cardinality(ExactPairs(dd_prospects)) = 1
     /\ SimilarPairs(dd_prospects) \subseteq ExactPairs(dd_prospects))
    => /\ dd_result.unique_count = dd_result.original_count - 1
       /\ Len(dd_result.duplicate_groups) = 1
       /\ dd_result.duplicate_groups[1].total_count = 2

\* The fields present on both records
SharedFields(p1, p2) ==
    {f \in SimilarityFields : p1[f] # <<>> /\ p2[f] # <<>>}

\* C11: two records that agree exactly on every field they both have (and
\* share at least one) have similarity 1.0, whichever of the other fields
\* are missing: the weighted sum is divided by the weights of the shared
\* fields only.
C11_NormalisedByPresentWeights ==
    \A i, j \in 1..Len(dd_prospects) :
        LET p1 == dd_prospects[i]
            p2 == dd_prospects[j]
            shared == SharedFields(p1, p2)
        IN  (/\ i < j
             /\ shared # {}
             /\ \A f \in shared : p1[f] = p2[f])
            => CalculateSimilarity(p1, p2) = One

(***************************************************************************)
(* Claims about validate_campaign_config (checked under SpecValidate)      *)
(***************************************************************************)
InSeq(x, seq) == \E i \in 1..Len(seq) : seq[i] = x

\* C6: is_valid is true exactly when keyword and location are non-empty and
\* max_results (default 20) is an integer >= 1; a max_results above 100 and
\* a radius outside [100, 50000] add a warning and never an error.
C6_ValidExactlyWhen ==
    v_result # None =>
        LET mr == IF v_config.max_results.t = "absent" THEN IntVal(20)
                  ELSE v_config.max_results
            rad == v_config.radius
        IN  /\ v_result.is_valid <=>
                 (/\ v_config.keyword # ""
                  /\ v_config.location # ""
                  /\ mr.t = "int"
                  /\ mr.v >= 1)
            /\ (mr.t = "int" /\ mr.v > 100) =>
                 /\ InSeq("max_results capped at 100", v_result.warnings)
                 /\ ~InSeq("max_results must be a positive integer",
                           v_result.errors)
            /\ (rad.t = "int" /\ (rad.v < 100 \/ rad.v > 50000)) =>
                 Len(v_result.warnings) >= 1
            /\ \A i \in 1..Len(v_result.errors) :
                 v_result.errors[i] \in
                    {"Keyword is required", "Location is required",
                     "max_results must be a positive integer"}

\* C6 witness: max_results = 200 and radius = 50001 validated: valid, with
\* two warnings
C6_Witness ==
    /\ v_result # None
    /\ v_config.max_results = IntVal(200)
    /\ v_config.radius = IntVal(50001)
    /\ v_result.is_valid
    /\ Len(v_result.warnings) = 2

(***************************************************************************)
(* Claims about a campaign (checked under SpecCampaign)                    *)
(***************************************************************************)
\* The config has no keyword, no location, or a max_results that is not a
\* positive integer
ConfigError(config) ==
    \/ config.keyword = ""
    \/ config.location = ""
    \/ Get(config.max_results, DefaultMaxResults).t # "int"
    \/ Get(config.max_results, DefaultMaxResults).v < 1

Succeeded == c_result # None /\ c_result.success = <<TRUE>>

\* C5: a campaign whose config has no keyword, no location or a max_results
\* that is not a positive integer calls no external adapter, and ends with an
\* error instead of a result.
C5_NoCallOnConfigError ==
    ConfigError(c_config) =>
        /\ c_calls = {}
        /\ ~Succeeded

\* min(max_results, 100) of the request
C7_Bound ==
    Min(Get(c_config.max_results, DefaultMaxResults).v, max_prospects_per_campaign)

\* C7: with a positive integer max_results, a successful campaign returns at
\* most min(max_results, 100) prospects; the listings are processed one by
\* one in discovery order, never more than were found, and none once
\* min(max_results, 100) qualified drafts have been collected.
C7_QuotaStopsProcessing ==
    /\ [](~ConfigError(c_config) =>
            /\ c_processed <= Len(c_businesses)
            /\ Len(c_prospects) <= C7_Bound
            /\ c_pc = "process" =>
                  /\ \A i \in 1..Len(c_prospects) :
                        c_prospects[i].google_place_id <= c_processed
                  /\ \A i, j \in 1..Len(c_prospects) :
                        i < j => c_prospects[i].google_place_id
                                    < c_prospects[j].google_place_id
            /\ Succeeded =>
                  /\ Len(c_result.prospects) <= C7_Bound
                  /\ c_result.total_processed <= c_result.total_found)
    /\ [][~ConfigError(c_config) /\ c_processed' # c_processed =>
            /\ c_processed' = c_processed + 1
            /\ Len(c_prospects) < C7_Bound]_vars

\* C7 witness: the provider had more listings than the service maximum and
\* the campaign stopped at the maximum
C7_Witness ==
    /\ Succeeded
    /\ Get(c_config.max_results, DefaultMaxResults).v > max_prospects_per_campaign
    /\ Len(c_result.prospects) = max_prospects_per_campaign
    /\ c_result.total_processed = max_prospects_per_campaign
    /\ c_result.total_found > max_prospects_per_campaign

\* The drafts of listing place_id among prospects
DraftsOf(prospects, place_id) ==
    {i \in 1..Len(prospects) : prospects[i].google_place_id = place_id}

\* C8: with deduplication enabled, the store check drops a draft exactly
\* when its verdict is is_duplicate with confidence > 80, and a dropped
\* draft is neither collected nor returned.
C8_HighConfidenceDuplicateDropped ==
    \A check \in c_checks :
        /\ check.dropped <=>
              (check.verdict.is_duplicate /\ check.verdict.confidence > 80)
        /\ check.dropped =>
              /\ DraftsOf(c_prospects, check.place_id) = {}
              /\ Succeeded => DraftsOf(c_result.prospects, check.place_id) = {}

\* C8 witness: a campaign returned a draft whose verdict was is_duplicate
\* with confidence 80 and dropped one whose verdict had confidence 81
C8_Witness ==
    /\ Succeeded
    /\ \E kept, gone \in c_checks :
          /\ kept.verdict = [raises |-> FALSE, is_duplicate |-> TRUE, confidence |-> 80]
          /\ ~kept.dropped
          /\ DraftsOf(c_result.prospects, kept.place_id) # {}
          /\ gone.verdict = [raises |-> FALSE, is_duplicate |-> TRUE, confidence |-> 81]
          /\ gone.dropped

\* C9: a draft whose AI analysis failed (error object or exception) has the
\* rule-based score as its quality score.
C9_AiFailureUsesRuleBasedScore ==
    \A i \in 1..Len(c_prospects) :
        c_prospects[i].ai_analyzed = <<FALSE>> =>
            c_prospects[i].quality_score
               = CalculateBasicQualityScore(c_prospects[i])

(***************************************************************************)
(* Claims about enrichment (checked under SpecBulk and SpecEnrich)         *)
(***************************************************************************)
\* An adapter raises inside the enrichment of record k of the bulk run
BulkFailure(k) ==
    \/ b_prospects[k].ico # None /\ b_worlds[k].ares.kind = "raises"
    \/ b_prospects[k].website # None /\ b_worlds[k].website.kind = "raises"

\* C12: bulk_enrich_prospects returns one entry per input record, in input
\* order; a record whose enrichment fails comes back with its original data
\* and an error marker, every other record, of the same and of later
\* batches, comes back enriched.
C12_OneEntryPerRecord ==
    /\ Len(b_enriched) = Min(b_i, Len(b_prospects))
    /\ b_result # None =>
          /\ Len(b_result) = Len(b_prospects)
          /\ \A k \in 1..Len(b_prospects) :
                /\ b_result[k].id = b_prospects[k].id
                /\ b_result[k].company_name = b_prospects[k].company_name
                /\ b_result[k].ico = b_prospects[k].ico
                /\ b_result[k].website = b_prospects[k].website
                /\ BulkFailure(k) =>
                      /\ b_result[k].enrichment_error # None
                      /\ b_result[k].enrichment_log = None
                      /\ b_result[k].legal_form = None
                      /\ b_result[k].ai_analysis = None
                /\ ~BulkFailure(k) =>
                      /\ b_result[k].enrichment_error = None
                      /\ b_result[k].enrichment_log # None
                      /\ b_result[k].enriched_at # None
                      /\ b_prospects[k].ico # None =>
                            b_result[k].legal_form = <<"s.r.o.">>
                      /\ b_worlds[k].oracle.kind = "answers" =>
                            b_result[k].quality_score = <<80>>

\* C12 witness: three records in two batches; the first fails, the second
\* of the same batch and the third of the next batch are enriched
C12_Witness ==
    /\ b_result # None
    /\ Len(b_result) = 3
    /\ b_max_concurrent = 2
    /\ BulkFailure(1)
    /\ b_result[1].enrichment_error # None
    /\ ~BulkFailure(2) /\ b_result[2].enrichment_log # None
    /\ ~BulkFailure(3) /\ b_result[3].enrichment_log # None

\* The text holds a JSON object
HoldsJsonObject(content) ==
    \E i, j \in 1..Len(content) : i < j /\ IsJsonObject(SubSeq(content, i, j))

\* The oracle raises, or answers a text with no well-formed JSON object in
\* it (malformed JSON, or prose)
OracleFails(oracle) ==
    \/ oracle.kind = "raises"
    \/ oracle.kind = "answers" /\ ~HoldsJsonObject(oracle.content)

\* C14: when the oracle raises or answers malformed JSON or prose, and the
\* other adapters answer, enrich_existing_prospect returns a record with no
\* enrichment_error that holds the registry and website fields and in which
\* ai_analysis, quality_score and validation_status are absent or an error
\* object.
C14_OracleFailureLeavesAiFieldsAbsent ==
    (/\ en_enriched # None
     /\ OracleFails(en_world.oracle)
     /\ en_world.ares.kind # "raises"
     /\ en_world.website.kind # "raises")
    => /\ en_enriched.enrichment_error = None
       /\ (en_prospect.ico # None /\ en_world.ares.kind = "found") =>
             en_enriched.formatted_address = en_world.ares.data.formatted_address
       /\ (en_prospect.website # None /\ en_world.website.accessible) =>
             en_enriched.website_analysis # None
       /\ en_enriched.quality_score = None
       /\ en_enriched.validation_status = None
       /\ \/ en_enriched.ai_analysis = None
          \/ en_enriched.ai_analysis[1].error # None

\* C13: a turn of the campaign loop leaves the prospects collected so far
\* as they are and adds at most the prospect of its own listing, and none
\* when the turn raised; the loop goes on to the next listing after it and
\* is left only when the listings are exhausted or the quota is reached; a
\* campaign that found listings ends with a successful result.
C13_FailureCostsOneListing ==
    /\ []((c_pc = "done" /\ c_businesses # <<>>) => Succeeded)
    /\ [][c_processed' # c_processed =>
            LET business == c_businesses[c_processed + 1]
            IN  /\ c_pc' = "process"
                /\ \/ c_prospects' = c_prospects
                   \/ /\ Len(c_prospects') = Len(c_prospects) + 1
                      /\ SubSeq(c_prospects', 1, Len(c_prospects)) = c_prospects
                      /\ c_prospects'[Len(c_prospects')].google_place_id
                            = business.place_id
                /\ business.place_id \in c_errors' => c_prospects' = c_prospects
                /\ c_errors' \subseteq c_errors \cup {business.place_id}]_vars
    /\ [][(c_pc = "process" /\ c_pc' # "process") =>
            /\ c_pc' = "sort"
            /\ \/ c_processed = Len(c_businesses)
               \/ Len(c_prospects) >= c_max_results]_vars

\* The turn of the first of two listings raised, the turn of the second one
\* lost its website adapter, and the campaign returned the second listing
C13_Witness ==
    /\ Succeeded
    /\ c_errors = {1}
    /\ c_result.total_processed = 2
    /\ Len(c_result.prospects) = 1
    /\ c_result.prospects[1].google_place_id = 2
    /\ c_result.prospects[1].website_scraped = <<FALSE>>

\* Discovery itself failed: no credentials, no coordinates for the location,
\* or an error status or exception of the provider
HardFailure == c_discovery \in {"no_api_key", "geocode_failed", "provider_error"}

\* C15: a campaign whose discovery yields no listing returns a failure
\* object, and the failure of a discovery that itself failed is not the one
\* of a provider that answered with zero results.
C15_NoResultsToldFromHardFailure ==
    (c_pc = "done" /\ c_discovery # "none" /\ c_businesses = <<>>) =>
        /\ c_result.success = <<FALSE>>
        /\ c_result.prospects = <<>>
        /\ HardFailure <=>
              c_result # CampaignError(<<"No businesses found for the given criteria">>)

\* C20: the prospects of a successful campaign are in non-increasing order
\* of quality_score, and the final deduplication precedes the sort.
C20_SortedByQuality ==
    /\ [](Succeeded =>
            \A i, j \in 1..Len(c_result.prospects) :
                i < j => c_result.prospects[i].quality_score
                            >= c_result.prospects[j].quality_score)
    /\ [][c_prospects' # c_prospects => c_pc # "sort"]_vars

\* The final deduplication ran on two prospects collected in increasing
\* order of score, and the result lists them in decreasing order
C20_Witness ==
    /\ Succeeded
    /\ c_config.enable_deduplication
    /\ Len(c_prospects) = 2
    /\ c_prospects[1].quality_score < c_prospects[2].quality_score
    /\ c_result.prospects = <<c_prospects[2], c_prospects[1]>>

\* The call answered from a cold cache
ColdSearch(world, max_results) == SearchBusinessesCall(world, None, max_results).returned

\* C16: every call of search_businesses returns at most its max_results
\* listings, and exactly the listings the same call returns with a cold
\* cache.
C16_CacheHitChangesNothing ==
    m_returned # None =>
        /\ Len(m_returned[1]) <= m_max_results
        /\ m_returned[1] = ColdSearch(m_world, m_max_results)

\* A string of exactly 8 digits whose 8th digit is the check digit of the
\* first 7
EightDigitsWithCheckDigit(ico) ==
    /\ Len(ico) = IcoLength
    /\ \A i \in 1..Len(ico) : IsDigit(ico[i])
    /\ DigitValue(ico[IcoLength]) = ExpectedCheckDigit(ico)

\* C18: validate_ico returns true only for a string of exactly 8 digits
\* whose 8th digit is the check digit of the first 7; it accepts 12345679
\* and rejects 12345670, strings of fewer than 8 digits and strings with a
\* character that is not a digit.
C18_OnlyEightDigitsWithCheckDigit ==
    vi_result # None =>
        /\ vi_result[1] => EightDigitsWithCheckDigit(vi_ico)
        /\ vi_ico = <<"1", "2", "3", "4", "5", "6", "7", "9">> => vi_result[1]
        /\ vi_ico = <<"1", "2", "3", "4", "5", "6", "7", "0">> => ~vi_result[1]

\* The call that has just returned was a successful enrichment
EnrichedNow == p_calls' = p_calls + 1 /\ p_returned' = <<TRUE>>

\* C17: a successful registry enrichment writes the registry's company name
\* and city over the row's, and leaves a non-empty legal_form,
\* legal_form_code, employee_count_range or business_activities of the row
\* non-empty when the registry's record lacks that field.
C17_OptionalFieldsNeverCleared ==
    [][EnrichedNow =>
          /\ p_ares'.company_name # None =>
                p_row'.company_name = p_ares'.company_name[1]
          /\ p_ares'.address_city # None =>
                p_row'.address_city = p_ares'.address_city[1]
          /\ (p_row.legal_form # "" /\ p_ares'.legal_form_code = None) =>
                p_row'.legal_form # ""
          /\ (p_row.legal_form_code # "" /\ p_ares'.legal_form_code = None) =>
                p_row'.legal_form_code # ""
          /\ p_row.employee_count_range # "" =>
                p_row'.employee_count_range # ""
          /\ (p_row.business_activities # <<>>
                 /\ p_ares'.business_activities = None) =>
                p_row'.business_activities # <<>>]_vars

\* C19: through every sequence of enrich_from_ico calls, ico_enriched
\* implies that ico_enriched_at is set and ico is not empty, and a call that
\* returns False leaves ico_enriched and ico_enriched_at as they were.
C19_EnrichedImpliesStampAndIco ==
    /\ [](p_row # None =>
            (p_row.ico_enriched =>
                /\ p_row.ico_enriched_at # None
                /\ p_row.ico # <<>>))
    /\ [][(p_calls' = p_calls + 1 /\ p_returned' = <<FALSE>>) =>
            /\ p_row'.ico_enriched = p_row.ico_enriched
            /\ p_row'.ico_enriched_at = p_row.ico_enriched_at]_vars

\* A successful enrichment followed by a failed one: the flag and the time
\* of the first call are still there
C19_Witness ==
    /\ p_calls = 2
    /\ p_returned = <<FALSE>>
    /\ p_ares = None
    /\ p_row.ico = ValidIco
    /\ p_row.ico_enriched
    /\ p_row.ico_enriched_at = <<1>>

(***************************************************************************)
(* Claims about the duplicate check                                        *)
(***************************************************************************)
\* The result of the fuzzy matching of the check
CheckFuzzy == FuzzyMatchProspects(ck_new, ck_existing)

\* C21: check_for_duplicates calls the duplicate oracle exactly when there
\* are existing prospects and the fuzzy confidence c satisfies 50 < c <= 90;
\* for c > 90 it returns the fuzzy verdict, method fuzzy_matching, and for
\* c <= 50 the fuzzy verdict, which is not a duplicate.
C21_OracleAskedBetween50And90 ==
    ck_result # None =>
        /\ ck_result.consulted <=>
              /\ ck_existing # <<>>
              /\ 50 < CheckFuzzy.confidence
              /\ CheckFuzzy.confidence <= 90
        /\ (ck_existing # <<>> /\ CheckFuzzy.confidence > 90) =>
              /\ ck_result.verdict = CheckFuzzy
              /\ ck_result.verdict.method = "fuzzy_matching"
        /\ (ck_existing # <<>> /\ CheckFuzzy.confidence <= 50) =>
              /\ ck_result.verdict = CheckFuzzy
              /\ ~ck_result.verdict.is_duplicate

\* The fuzzy confidence 89 is escalated and the verdict is the combined one
C21_Witness ==
    /\ ck_result # None
    /\ CheckFuzzy.confidence = 89
    /\ ck_result.consulted
    /\ ck_result.verdict.method = "combined_fuzzy_ai"

\* The check was escalated and the oracle answered a number, or nothing
\* that parses, which counts as confidence 0
EscalatedWithNumber ==
    /\ ck_result # None
    /\ ck_result.consulted
    /\ ck_oracle.confidence.t = "int"

\* C22: in an escalated check the confidence is 0.6 x fuzzy_confidence +
\* 0.4 x ai_confidence truncated to an integer, and is_duplicate is true
\* exactly when (fuzzy says duplicate and fuzzy_confidence > 80) or (AI says
\* duplicate and ai_confidence > 70) or the combined confidence > 75.
C22_CombinedVerdict ==
    EscalatedWithNumber =>
        LET f == CheckFuzzy.confidence
            a == ck_oracle.confidence.v
            tenths == 6 * f + 4 * a
        IN  /\ ck_result.verdict.confidence =
                   IF tenths >= 0 THEN tenths \div 10 ELSE -((-tenths) \div 10)
            /\ ck_result.verdict.is_duplicate <=>
                   \/ CheckFuzzy.is_duplicate /\ f > 80
                   \/ ck_oracle.is_duplicate /\ a > 70
                   \/ tenths > 750

\* C23: when the oracle raises or is unavailable during an escalated check,
\* the verdict has the is_duplicate and the confidence of the fuzzy matching
\* alone.
C23_OracleFailureGivesFuzzyResult ==
    (/\ ck_result # None
     /\ ck_result.consulted
     /\ ck_oracle.kind \in {"raises", "unavailable"}) =>
        /\ ck_result.verdict.is_duplicate = CheckFuzzy.is_duplicate
        /\ ck_result.verdict.confidence = CheckFuzzy.confidence

\* C24: every verdict of check_for_duplicates has a confidence within
\* 0..100, whatever the existing prospects and the reply of the oracle.
C24_ConfidenceWithin0And100 ==
    ck_result # None => ck_result.verdict.confidence \in 0..100

(***************************************************************************)
(* Claims about advance_sequence and its requests                          *)
(***************************************************************************)
\* C25: advance_sequence on an instance at sequence_position 4 leaves its
\* sequence_position, status and next_followup_date as they are and writes
\* nothing, and the position of the row stays within 0..4 under any number
\* of calls.
C25_PositionFourIsFinal ==
    /\ [](r_row.sequence_position \in 0..4)
    /\ [][\A q \in 1..NumRequests :
            (/\ r_mem[q] # None
             /\ r_mem'[q] = None
             /\ r_mem[q][1].sequence_position = 4) =>
                /\ AdvanceResult(4, r_mem[q][1].status,
                                 r_mem[q][1].next_followup_date, r_now)
                      = <<4, r_mem[q][1].status, r_mem[q][1].next_followup_date>>
                /\ r_row' = r_row
                /\ r_writes' = r_writes]_vars

\* Five requests one after the other: the fifth found position 4 and wrote
\* nothing
C25_Witness ==
    /\ r_started = 5
    /\ r_writes = 4
    /\ r_row.sequence_position = 4
    /\ \A q \in 1..NumRequests : r_mem[q] = None

\* C27: when no request is under way, the position of the row is the number
\* of requests made, bounded by 4, as every serial order of the requests
\* leaves it: no update is lost.
C27_NoLostUpdate ==
    (\A q \in 1..NumRequests : r_mem[q] = None) =>
        r_row.sequence_position = IF r_started < 4 THEN r_started ELSE 4

\* The status fixed for a position of the sequence
StatusOfPosition(pos) ==
    CASE pos = 0 -> "new"
      [] pos = 1 -> "sent"
      [] pos = 2 -> "follow_up_1"
      [] pos = 3 -> "follow_up_2"
      [] pos = 4 -> "dead"

\* C30: no row saved by advance_sequence has status follow_up_3, a save
\* that brings the position to 4 saves status dead, and from position 0 and
\* status new every state reached by advance_sequence alone has the status
\* fixed for its position.
C30_NeverSavesFollowUp3 ==
    /\ [](r_row.status = StatusOfPosition(r_row.sequence_position))
    /\ [][r_writes' # r_writes =>
            /\ r_row'.status # "follow_up_3"
            /\ r_row'.sequence_position = 4 => r_row'.status = "dead"]_vars

\* The fourth save has brought the row to position 4 and status dead
C30_Witness ==
    /\ r_writes = 4
    /\ r_row.sequence_position = 4
    /\ r_row.status = "dead"
    /\ r_row.next_followup_date = None

(***************************************************************************)
(* Claims about the page fetch                                             *)
(***************************************************************************)
\* C26: a page fetch ends, after at most 3 attempts: it stops at the first
\* attempt that gets a response, returns nothing without a retry when the
\* response is not HTML, and after a third failed attempt returns nothing
\* and does not raise.
C26_FetchEndsWithinThreeAttempts ==
    /\ <>(f_result # None)
    /\ [](f_attempt <= 3)
    /\ [](f_result # None =>
            /\ \A k \in 1..(f_attempt - 1) : f_world[k] = "request_exception"
            /\ f_world[f_attempt] = "html" => f_result = <<"soup">>
            /\ f_world[f_attempt] = "non_html" => f_result = <<"none">>
            /\ f_world[f_attempt] = "request_exception" =>
                  f_attempt = 3 /\ f_result = <<"none">>)

\* Three failed attempts, and the call has returned nothing
C26_Witness ==
    /\ f_attempt = 3
    /\ \A k \in 1..3 : f_world[k] = "request_exception"
    /\ f_result = <<"none">>

(***************************************************************************)
(* Claims about the deduplication of a list                                *)
(***************************************************************************)
\* C28: after deduplicate_prospect_list no two records of unique_prospects
\* have a similarity above the threshold.
C28_UniqueProspectsPairwiseDistinct ==
    dd_result # None =>
        \A a, b \in 1..Len(dd_result.unique_prospects) :
            a < b => ~AboveThreshold(
                        CalculateSimilarity(dd_result.unique_prospects[a],
                                            dd_result.unique_prospects[b]))

\* The number of groups that hold index i, as master or as duplicate
GroupsHolding(i) ==
    Cardinality({g \in 1..Len(dd_result.duplicate_groups) :
                    dd_result.duplicate_groups[g].master = i})
    + Cardinality({<<g, k>> \in (1..Len(dd_result.duplicate_groups)) \X (1..Len(dd_prospects)) :
                    /\ k <= Len(dd_result.duplicate_groups[g].duplicates)
                    /\ dd_result.duplicate_groups[g].duplicates[k].index = i})

\* C29: deduplicate_prospect_list partitions its input: every index is the
\* master of one group, or a duplicate of exactly one group, or in no group;
\* unique_prospects has one record for every group and one for every index
\* in no group; unique_count is original_count less the sum over the groups
\* of total_count - 1; and every record of unique_prospects is one of the
\* input records.
C29_GroupsPartitionTheInput ==
    dd_result # None =>
        LET groups == dd_result.duplicate_groups
            Removed[g \in 0..Len(groups)] ==
                IF g = 0 THEN 0 ELSE Removed[g - 1] + groups[g].total_count - 1
            alone == {i \in 1..Len(dd_prospects) : GroupsHolding(i) = 0}
        IN  /\ \A i \in 1..Len(dd_prospects) : GroupsHolding(i) <= 1
            /\ \A g \in 1..Len(groups) :
                  groups[g].total_count = Len(groups[g].duplicates) + 1
            /\ dd_result.original_count = Len(dd_prospects)
            /\ dd_result.unique_count = Len(dd_result.unique_prospects)
            /\ dd_result.unique_count = Len(groups) + Cardinality(alone)
            /\ dd_result.unique_count =
                  dd_result.original_count - Removed[Len(groups)]
            /\ \A u \in 1..Len(dd_result.unique_prospects) :
                  \E i \in 1..Len(dd_prospects) :
                      dd_result.unique_prospects[u] = dd_prospects[i]

\* Three records: the first is the master of a group with the second, whose
\* record is the one kept, and the third passes alone
C29_Witness ==
    /\ dd_result # None
    /\ Len(dd_prospects) = 3
    /\ Len(dd_result.duplicate_groups) = 1
    /\ dd_result.duplicate_groups[1].master = 1
    /\ dd_result.duplicate_groups[1].total_count = 2
    /\ dd_result.duplicate_groups[1].duplicates[1].index = 2
    /\ dd_result.unique_prospects = <<dd_prospects[2], dd_prospects[3]>>
    /\ dd_prospects[2] # dd_prospects[1]

====
